---------------------------- MODULE Spec2Model ----------------------------
(***************************************************************************)
(* Model of the runfiles-stub repository: the finalizer (finalize-stub)   *)
(* that patches placeholder slots of a template binary, and the launcher  *)
(* (runfiles-stub) that reads the slots back, discovers runfiles,         *)
(* resolves embedded arguments and hands off to the child.                *)
(*                                                                         *)
(* Bytes are integers 0..255.  A byte string is a sequence of bytes.      *)
(***************************************************************************)
EXTENDS Integers, Sequences, FiniteSets, TLC

(***************************************************************************)
(* Byte-string helpers                                                     *)
(***************************************************************************)
None == -1

\* Option<T>
NoValue == [some |-> FALSE, value |-> <<>>]
Some(v) == [some |-> TRUE, value |-> v]

NUL == 0
AT == 64
SLASH == 47
EQUALS == 61
SPACE == 32
DIGIT0 == 48
DIGIT9 == 57

Rep(b, n) == [i \in 1..n |-> b]

Min2(a, b) == IF a < b THEN a ELSE b

\* slice s[from..to) with 0-based offsets, as Rust's &s[from..to]
Slice(s, from, to) == SubSeq(s, from + 1, to)

\* b"@@RUNFILES_ARGC@@"
ARGC_PATTERN == <<64, 64, 82, 85, 78, 70, 73, 76, 69, 83, 95, 65, 82, 71, 67, 64, 64>>
\* b"@@RUNFILES_TRANSFORM_FLAGS@@"
FLAGS_PATTERN == <<64, 64, 82, 85, 78, 70, 73, 76, 69, 83, 95, 84, 82, 65, 78, 83, 70, 79, 82, 77, 95, 70, 76, 65, 71, 83, 64, 64>>
\* b"@@RUNFILES_EXPORT_ENV@@"
EXPORT_PATTERN == <<64, 64, 82, 85, 78, 70, 73, 76, 69, 83, 95, 69, 88, 80, 79, 82, 84, 95, 69, 78, 86, 64, 64>>
\* b"@@RUNFILES_"
TEMPLATE_PREFIX == <<64, 64, 82, 85, 78, 70, 73, 76, 69, 83, 95>>

ARG_SIZE == 256
ARGC_SIZE == 32
META_SIZE == 32
MAX_ARGS == 10

ARG_PATTERN == Rep(AT, ARG_SIZE)

(***************************************************************************)
(* finalize-stub                                                           *)
(***************************************************************************)

\* usize/u32 to_string(): decimal digits, no leading zeros
RECURSIVE ToDecimal(_)
ToDecimal(n) ==
    IF n < 10 THEN <<DIGIT0 + n>>
    ELSE Append(ToDecimal(n \div 10), DIGIT0 + (n % 10))

\* data.windows(pattern.len()).position(|w| w == pattern), searched in
\* data[pos..]; the result is relative to pos, or None
WindowAt(data, pattern, p) ==
    data[p + 1] = pattern[1] /\ Slice(data, p, p + Len(pattern)) = pattern

find_pattern_from(data, pattern, pos) ==
    LET starts == pos..(Len(data) - Len(pattern))
    IN IF \A p \in starts : ~WindowAt(data, pattern, p) THEN None
       ELSE (CHOOSE p \in starts :
                /\ WindowAt(data, pattern, p)
                /\ \A q \in pos..(p - 1) : ~WindowAt(data, pattern, q)) - pos

find_pattern(data, pattern) == find_pattern_from(data, pattern, 0)

RECURSIVE find_nth_loop(_, _, _, _, _)
find_nth_loop(data, pattern, n, count, pos) ==
    IF ~(pos < Len(data)) THEN None
    ELSE LET offset == find_pattern_from(data, pattern, pos)
         IN IF offset = None THEN None
            ELSE IF count = n THEN pos + offset
            ELSE find_nth_loop(data, pattern, n, count + 1, pos + offset + Len(pattern))

\* find_nth_pattern with the scan resumed one byte after a match, not after
\* the whole match
RECURSIVE find_nth_overlapping_loop(_, _, _, _, _)
find_nth_overlapping_loop(data, pattern, n, count, pos) ==
    IF ~(pos < Len(data)) THEN None
    ELSE LET offset == find_pattern_from(data, pattern, pos)
         IN IF offset = None THEN None
            ELSE IF count = n THEN pos + offset
            ELSE find_nth_overlapping_loop(data, pattern, n, count + 1, pos + offset + 1)

find_nth_overlapping(data, pattern, n) ==
    find_nth_overlapping_loop(data, pattern, n, 0, 0)

find_nth_pattern(data, pattern, n) == find_nth_loop(data, pattern, n, 0, 0)

\* replace_at with a zero fill that runs one byte past the end of the slot
replace_at_overrun(data, offset, new_value, fixed_size) ==
    IF Len(new_value) > fixed_size THEN [err |-> "Value too long", data |-> data]
    ELSE IF offset + fixed_size > Len(data) THEN [err |-> "panic", data |-> data]
    ELSE [err |-> "",
          data |-> [i \in 1..Len(data) |->
                      IF i > offset /\ i <= offset + Len(new_value)
                      THEN new_value[i - offset]
                      ELSE IF i > offset /\ i <= offset + fixed_size + 1 THEN NUL
                      ELSE data[i]]]

\* replace_at with the length test `new_value.len() >= fixed_size`
replace_at_exclusive(data, offset, new_value, fixed_size) ==
    IF Len(new_value) >= fixed_size THEN [err |-> "Value too long", data |-> data]
    ELSE IF offset + fixed_size > Len(data) THEN [err |-> "panic", data |-> data]
    ELSE [err |-> "",
          data |-> [i \in 1..Len(data) |->
                      IF i > offset /\ i <= offset + Len(new_value)
                      THEN new_value[i - offset]
                      ELSE IF i > offset /\ i <= offset + fixed_size THEN NUL
                      ELSE data[i]]]

\* Result of replace_at: err = "" on Ok; "panic" models the slice index
\* out of range abort when the slot does not fit in the buffer.
replace_at(data, offset, new_value, fixed_size) ==
    IF Len(new_value) > fixed_size
    THEN [err |-> "Value too long", data |-> data]
    ELSE IF offset + fixed_size > Len(data)
    THEN [err |-> "panic", data |-> data]
    ELSE [err |-> "",
          data |-> [i \in 1..Len(data) |->
                      IF i > offset /\ i <= offset + Len(new_value) THEN new_value[i - offset]
                      ELSE IF i > offset /\ i <= offset + fixed_size THEN NUL
                      ELSE data[i]]]


\* u32 values are pairs <<hi, lo>> of 16-bit halves (value = hi * 65536 + lo)
U32(hi, lo) == <<hi, lo>>

RECURSIVE ToDecimalU32(_)
ToDecimalU32(v) ==
    IF v[1] = 0 THEN ToDecimal(v[2])
    ELSE LET t == (v[1] % 10) * 65536 + v[2]
         IN Append(ToDecimalU32(U32(v[1] \div 10, t \div 10)), DIGIT0 + (t % 10))

\* One patch step of finalize_stub: find the sentinel, replace_at; the `?`
\* operator returns the first error.  `at` records where the patch was made.
PatchSentinel(data, pattern, missing, value) ==
    LET pos == find_pattern(data, pattern)
    IN IF pos = None THEN [err |-> missing, data |-> data, at |-> None]
       ELSE [at |-> pos] @@ replace_at(data, pos, value, META_SIZE)

\* arg_positions: every find_nth_pattern runs on the buffer as it is after the
\* three metadata patches and before any ARG patch
ArgPositions(data, n) == [i \in 1..n |-> find_nth_pattern(data, ARG_PATTERN, i - 1)]

RECURSIVE PatchArgs(_, _, _, _)
PatchArgs(data, positions, argv, i) ==
    IF i > Len(argv) THEN [err |-> "", data |-> data]
    ELSE LET r == replace_at(data, positions[i], argv[i], ARG_SIZE)
         IN IF r.err # "" THEN r
            ELSE PatchArgs(r.data, positions, argv, i + 1)

Failed(msg) == [err |-> msg, data |-> <<>>, meta |-> <<>>, args |-> <<>>]

\* finalize_stub on the bytes of the template file.  err = "" on Ok, and then
\* data are the bytes written to the output, meta the offsets of the three
\* metadata patches (ARGC, TRANSFORM_FLAGS, EXPORT_RUNFILES_ENV) and args
\* the offsets of the ARG patches; on Err nothing is written.
finalize_stub(template, argv, transform_flags, export_runfiles_env) ==
    IF Len(argv) = 0 THEN Failed("At least one argument (argv[0]) is required")
    ELSE IF Len(argv) > MAX_ARGS THEN Failed("Maximum 10 arguments supported")
    ELSE
    LET r1 == PatchSentinel(template, ARGC_PATTERN, "ARGC placeholder not found",
                            ToDecimal(Len(argv)))
    IN IF r1.err # "" THEN Failed(r1.err) ELSE
    LET r2 == PatchSentinel(r1.data, FLAGS_PATTERN, "TRANSFORM_FLAGS placeholder not found",
                            ToDecimalU32(transform_flags))
    IN IF r2.err # "" THEN Failed(r2.err) ELSE
    LET r3 == PatchSentinel(r2.data, EXPORT_PATTERN, "EXPORT_RUNFILES_ENV placeholder not found",
                            IF export_runfiles_env THEN <<DIGIT0 + 1>> ELSE <<DIGIT0>>)
    IN IF r3.err # "" THEN Failed(r3.err) ELSE
    LET positions == ArgPositions(r3.data, Len(argv))
    IN IF \E i \in 1..Len(argv) : positions[i] = None
       THEN Failed("ARG placeholder not found") ELSE
    LET r4 == PatchArgs(r3.data, positions, argv, 1)
    IN IF r4.err # "" THEN Failed(r4.err)
       ELSE [err |-> "", data |-> r4.data,
             meta |-> <<r1.at, r2.at, r3.at>>, args |-> positions]

(***************************************************************************)
(* Templates and inputs of the finalizer                                   *)
(***************************************************************************)
\* the statics of the stub as the linker lays them out
ARGC_PLACEHOLDER == ARGC_PATTERN \o Rep(NUL, 15)
TRANSFORM_FLAGS == FLAGS_PATTERN \o Rep(NUL, 4)
EXPORT_RUNFILES_ENV == EXPORT_PATTERN \o Rep(NUL, 9)
ARG_PLACEHOLDER == Rep(AT, ARG_SIZE)

\* number of ARG placeholders in the modelled templates (10 in the stub)
NumArgSlots == 3
\* longest argv the finalizer is given in the model
MaxArgv == 2

\* bytes of the binary outside the placeholder section
Code(n) == Rep(144, n)

RECURSIVE Times(_, _)
Times(s, n) == IF n = 0 THEN <<>> ELSE s \o Times(s, n - 1)

\* the section as the stub sources declare it, between other bytes
TplSection ==
    Code(2) \o ARGC_PLACEHOLDER \o TRANSFORM_FLAGS \o EXPORT_RUNFILES_ENV
        \o Times(ARG_PLACEHOLDER, NumArgSlots) \o Code(1)
\* another link order: arguments first, metadata reversed, gaps between slots
TplReordered ==
    ARG_PLACEHOLDER \o Code(1) \o Times(ARG_PLACEHOLDER, NumArgSlots - 1)
        \o EXPORT_RUNFILES_ENV \o Code(1) \o TRANSFORM_FLAGS \o ARGC_PLACEHOLDER
\* a single ARG placeholder
TplOneArg ==
    ARGC_PLACEHOLDER \o TRANSFORM_FLAGS \o EXPORT_RUNFILES_ENV \o ARG_PLACEHOLDER
\* a file without the EXPORT sentinel
TplNoExport ==
    ARGC_PLACEHOLDER \o TRANSFORM_FLAGS \o Times(ARG_PLACEHOLDER, NumArgSlots)
\* a file without the ARGC sentinel
TplNoArgc ==
    TRANSFORM_FLAGS \o EXPORT_RUNFILES_ENV \o Times(ARG_PLACEHOLDER, NumArgSlots)
\* a file that ends inside the EXPORT slot
TplCut ==
    Times(ARG_PLACEHOLDER, NumArgSlots) \o ARGC_PLACEHOLDER \o TRANSFORM_FLAGS
        \o EXPORT_PATTERN
\* a file in which the TRANSFORM_FLAGS sentinel is followed directly by the
\* ARGC sentinel, so that the two 32-byte slots overlap
TplOverlap ==
    FLAGS_PATTERN \o ARGC_PLACEHOLDER \o EXPORT_RUNFILES_ENV
        \o Times(ARG_PLACEHOLDER, NumArgSlots)
\* a file in which 254 '@' bytes precede the ARGC sentinel, so that the first
\* run of 256 '@' ends inside the ARGC slot
TplRunIntoArgc ==
    Rep(AT, ARG_SIZE - 2) \o ARGC_PLACEHOLDER \o TRANSFORM_FLAGS \o EXPORT_RUNFILES_ENV
        \o Code(1) \o Times(ARG_PLACEHOLDER, NumArgSlots)

Templates ==
    {TplSection, TplReordered, TplOneArg, TplNoExport, TplNoArgc, TplCut,
     TplOverlap, TplRunIntoArgc}

\* an argument value that spells the three sentinels 32 bytes apart
SentinelsValue ==
    ARGC_PATTERN \o Rep(120, 15) \o FLAGS_PATTERN \o Rep(120, 4) \o EXPORT_PATTERN
        \o Rep(120, 9)

\* embedded argument values: "a", "", 256 x 'b', 257 x 'b', the ARGC sentinel,
\* 256 x '@', the three sentinels
ArgValues ==
    {<<97>>, <<>>, Rep(98, ARG_SIZE), Rep(98, ARG_SIZE + 1), ARGC_PATTERN, ARG_PATTERN,
     SentinelsValue}

\* values of the arguments after argv[0]: "a", 257 x 'b', 256 x '@'
MoreArgValues == {<<97>>, Rep(98, ARG_SIZE + 1), ARG_PATTERN}

\* argv[0] from ArgValues, followed by up to n - 1 of MoreArgValues
ArgvsUpTo(n) ==
    UNION {{<<a>> \o t : a \in ArgValues, t \in [1..k -> MoreArgValues]} : k \in 0..(n - 1)}

FinalizeArgvs == ArgvsUpTo(MaxArgv)

\* (transform mask, export flag) pairs
FinalizeFlags == {<<U32(0, 5), FALSE>>, <<U32(65535, 65535), TRUE>>}

\* argv of a second run of the finalizer: "a", or "a" "a"
RefinalizeArgvs == {<<<<97>>>>, <<<<97>>, <<97>>>>}


(***************************************************************************)
(* The finalizer as a state machine: one run of finalize-stub on a        *)
(* template, then a second run of finalize-stub on the output of the      *)
(* first.                                                                  *)
(***************************************************************************)
VARIABLES
    tmpl,      \* bytes of the template file
    fargv,     \* argv given to finalize_stub
    fmask,     \* transform_flags given to finalize_stub
    fexport,   \* export_runfiles_env given to finalize_stub
    fstage,    \* "start", "finalized", "refinalized"
    fres,      \* result of finalize_stub(tmpl, ...)
    rargv,     \* argv of the second run
    rres,      \* result of the second run, on fres.data
    template_path,  \* template_path given to finalize_stub
    output_path,    \* output_path given to finalize_stub, None for stdout
    disk       \* the files that exist, by canonical path, and their bytes

fvars == <<tmpl, fargv, fmask, fexport, fstage, fres, rargv, rres,
           template_path, output_path, disk>>

\* State of one run of the launcher (runfiles-stub)
VARIABLES
    platform,             \* "linux", "macos" or "windows": the backend compiled in
    stub,                 \* the placeholder statics of the binary
    runtime_argv,         \* arguments the launcher was started with (argv[0] first)
    cmdline,              \* Windows: GetCommandLineW()
    environ,              \* environment the launcher inherited
    fs,                   \* manifest files and directories that exist
    pc,                   \* position in _start_rust / main
    argc,                 \* parsed ARGC
    transform_flags,      \* parsed TRANSFORM_FLAGS
    export_runfiles_env,  \* parsed EXPORT_RUNFILES_ENV
    runfiles,             \* result of Runfiles::create
    resolved_paths,       \* buffers of the child's arguments
    cmdline_wide,         \* Windows: command line built for the child
    rlocation_calls,      \* indices of the embedded arguments given to rlocation
    envp,                 \* environment built for the child
    child,                \* what execve / CreateProcessW received
    exit_code,            \* status of exit(), None while running
    output                \* what print() wrote: the descriptor and the diagnostic

lvars == <<platform, stub, runtime_argv, cmdline, environ, fs, pc, argc,
           transform_flags, export_runfiles_env, runfiles, resolved_paths,
           cmdline_wide, rlocation_calls, envp, child, exit_code, output>>

vars == <<fvars, lvars>>

\* no launcher runs
LauncherIdle ==
    /\ platform = "none" /\ stub = <<>> /\ runtime_argv = <<>> /\ cmdline = <<>>
    /\ environ = <<>> /\ fs = <<>> /\ pc = "idle" /\ argc = 0
    /\ transform_flags = <<0, 0>> /\ export_runfiles_env = FALSE
    /\ runfiles = <<>> /\ resolved_paths = <<>> /\ cmdline_wide = <<>>
    /\ rlocation_calls = <<>>
    /\ envp = <<>> /\ child = <<>> /\ exit_code = None /\ output = <<>>

NoResult == [err |-> "not run", data |-> <<>>, meta |-> <<>>, args |-> <<>>]

\* the paths of the runs: the template, the same file through a relative
\* path and through a symbolic link, another file, and a path with no file
P_TEMPLATE == "/w/stub"
P_RELATIVE == "/w/./stub"
P_LINK == "/w/link"
P_OTHER == "/w/other"
P_NEW == "/w/new"

\* the canonical path of p when something exists there: "." components
\* removed and symbolic links followed
Resolved(p) ==
    IF p \in {P_RELATIVE, P_LINK} THEN P_TEMPLATE ELSE p

\* fs::canonicalize reduced to the path as written
canonicalize_lexical(files, p) ==
    IF Resolved(p) \in DOMAIN files THEN Some(p) ELSE NoValue

\* fs::canonicalize(p) with the `.ok()` reading: None when nothing exists at p
canonicalize(files, p) ==
    IF Resolved(p) \in DOMAIN files THEN Some(Resolved(p)) ELSE NoValue

\* the files before the run: the template and one other file
InitialDisk(template) == (P_TEMPLATE :> template) @@ (P_OTHER :> <<NUL>>)

OutputPaths == {NoValue} \cup {Some(p) : p \in {P_TEMPLATE, P_RELATIVE, P_LINK, P_OTHER, P_NEW}}

SAME_PATH == "Output path cannot be the same as template path"

\* the "Write output" block at the end of finalize_stub, reached with the
\* patched bytes: fs::write(output) or stdout().write_all
WriteOutput(files, out, data) ==
    IF out.some THEN [disk |-> (Resolved(out.value) :> data) @@ files, stdout |-> <<>>]
    ELSE [disk |-> files, stdout |-> data]

NothingWritten(files) == [disk |-> files, stdout |-> <<>>]

\* a finalizer that writes the buffer out as soon as ARGC is patched, before
\* the other placeholders are looked for
finalize_stub_writing_through(files, template, out, argv, flags, export) ==
    IF Len(argv) = 0 \/ Len(argv) > MAX_ARGS
    THEN NothingWritten(files) @@ finalize_stub(<<>>, argv, flags, export)
    ELSE IF ~canonicalize(files, template).some
    THEN NothingWritten(files) @@ Failed("Failed to resolve template path")
    ELSE IF out.some /\ canonicalize(files, out.value) = canonicalize(files, template)
    THEN NothingWritten(files) @@ Failed(SAME_PATH)
    ELSE LET r == finalize_stub(files[Resolved(template)], argv, flags, export)
             first == PatchSentinel(files[Resolved(template)], ARGC_PATTERN,
                                    "ARGC placeholder not found", ToDecimal(Len(argv)))
         IN IF r.err = "" THEN WriteOutput(files, out, r.data) @@ r
            ELSE IF first.err = "" THEN WriteOutput(files, out, first.data) @@ r
            ELSE NothingWritten(files) @@ r

\* finalize_stub with its files: the guard on the output path, then the
\* patching of the bytes read from template_path, then the write of the
\* output.  disk is what the files are after the call, stdout the bytes
\* written to the standard output.
finalize_stub_files(files, template, out, argv, flags, export) ==
    IF Len(argv) = 0 \/ Len(argv) > MAX_ARGS
    THEN NothingWritten(files) @@ finalize_stub(<<>>, argv, flags, export)
    ELSE IF ~canonicalize(files, template).some
    THEN NothingWritten(files) @@ Failed("Failed to resolve template path")
    ELSE IF out.some /\ canonicalize(files, out.value) = canonicalize(files, template)
    THEN NothingWritten(files) @@ Failed(SAME_PATH)
    ELSE LET r == finalize_stub(files[Resolved(template)], argv, flags, export)
         IN IF r.err = "" THEN WriteOutput(files, out, r.data) @@ r
            ELSE NothingWritten(files) @@ r

\* runs on every template and argv with the output on stdout, and runs of
\* four argvs (among them none and eleven values) on four templates with
\* every output path
InitFinalize ==
    /\ \/ /\ tmpl \in Templates
          /\ fargv \in FinalizeArgvs
          /\ output_path = NoValue
       \/ /\ tmpl \in {TplSection, TplNoArgc, TplNoExport, TplOneArg}
          /\ fargv \in {<<<<97>>>>, <<<<97>>, Rep(98, ARG_SIZE + 1)>>, <<>>,
                        Rep(<<97>>, MAX_ARGS + 1)}
          /\ output_path \in OutputPaths
    /\ template_path = P_TEMPLATE
    /\ disk = InitialDisk(tmpl)
    /\ \E f \in FinalizeFlags : fmask = f[1] /\ fexport = f[2]
    /\ fstage = "start"
    /\ fres = NoResult
    /\ rargv = <<>>
    /\ rres = NoResult
    /\ LauncherIdle

\* main -> finalize_stub(template, output, args, transform_flags, export, verbose)
Finalize ==
    /\ fstage = "start"
    /\ LET r == finalize_stub_files(disk, template_path, output_path, fargv, fmask,
                                    fexport)
       IN /\ fres' = [err |-> r.err, data |-> r.data, meta |-> r.meta, args |-> r.args,
                       stdout |-> r.stdout]
          /\ disk' = r.disk
    /\ fstage' = "finalized"
    /\ UNCHANGED <<tmpl, fargv, fmask, fexport, rargv, rres, template_path, output_path>>
    /\ UNCHANGED lvars

\* a later run of finalize-stub with the first run's output as its template
Refinalize ==
    /\ fstage = "finalized"
    /\ fres.err = ""
    /\ \E a \in RefinalizeArgvs :
          /\ rargv' = a
          /\ rres' = finalize_stub(fres.data, a, fmask, fexport)
    /\ fstage' = "refinalized"
    /\ UNCHANGED <<tmpl, fargv, fmask, fexport, fres, template_path, output_path, disk>>
    /\ UNCHANGED lvars

NextFinalize == Finalize \/ Refinalize

SpecFinalize == InitFinalize /\ [][NextFinalize]_vars


(***************************************************************************)
(* Properties of the finalizer                                             *)
(***************************************************************************)
Finalized == fstage # "start" /\ fres.err = ""

\* pat occurs in data at offset o
OccursAt(data, pat, o) ==
    /\ o >= 0
    /\ o + Len(pat) <= Len(data)
    /\ \A j \in 1..Len(pat) : data[o + j] = pat[j]

\* offset of the first occurrence of pat in data at or after from, or None
FirstOccurrenceFrom(data, pat, from) ==
    IF \E o \in from..Len(data) : OccursAt(data, pat, o)
    THEN CHOOSE o \in from..Len(data) :
            OccursAt(data, pat, o) /\ \A q \in from..(o - 1) : ~OccursAt(data, pat, q)
    ELSE None

FirstOccurrence(data, pat) == FirstOccurrenceFrom(data, pat, 0)

\* offset of the i-th (from 0) non-overlapping run of 256 '@' counted from the
\* start of data, or None
RECURSIVE NthRun(_, _)
NthRun(data, i) ==
    IF i = 0 THEN FirstOccurrenceFrom(data, ARG_PATTERN, 0)
    ELSE LET prev == NthRun(data, i - 1)
         IN IF prev = None THEN None
            ELSE FirstOccurrenceFrom(data, ARG_PATTERN, prev + ARG_SIZE)

\* the slot of `size` bytes at offset o holds value followed by zero bytes
SlotHolds(data, o, size, value) ==
    /\ o # None
    /\ o + size <= Len(data)
    /\ Len(value) <= size
    /\ \A j \in 1..size : data[o + j] = IF j <= Len(value) THEN value[j] ELSE NUL

\* decimal text of the argument counts and masks the model uses
CountText(n) ==
    CASE n = 1 -> <<49>> [] n = 2 -> <<50>> [] n = 3 -> <<51>> [] n = 4 -> <<52>>
      [] n = 5 -> <<53>> [] OTHER -> <<>>

MaskText(m) ==
    CASE m = U32(0, 5) -> <<53>>
      [] m = U32(65535, 65535) -> <<52, 50, 57, 52, 57, 54, 55, 50, 57, 53>>
      [] OTHER -> <<>>

ExportText(e) == IF e THEN <<49>> ELSE <<48>>

\* T contains the three sentinels and at least n runs of 256 '@'
HasPlaceholders(T, n) ==
    /\ FirstOccurrence(T, ARGC_PATTERN) # None
    /\ FirstOccurrence(T, FLAGS_PATTERN) # None
    /\ FirstOccurrence(T, EXPORT_PATTERN) # None
    /\ NthRun(T, n - 1) # None

\* the slots of T: the 32 bytes at each sentinel and the first n runs
SlotRegions(T, n) ==
    {<<FirstOccurrence(T, ARGC_PATTERN), META_SIZE>>,
     <<FirstOccurrence(T, FLAGS_PATTERN), META_SIZE>>,
     <<FirstOccurrence(T, EXPORT_PATTERN), META_SIZE>>}
      \cup {<<NthRun(T, i), ARG_SIZE>> : i \in 0..(n - 1)}

RegionsDisjoint(R) ==
    \A a \in R : \A b \in R : a = b \/ a[1] + a[2] <= b[1] \/ b[1] + b[2] <= a[1]

\* every slot of F holds its value at the offset the slot has in T
SlotsHoldValues(T, F, argv, mask, export) ==
    /\ SlotHolds(F, FirstOccurrence(T, ARGC_PATTERN), META_SIZE, CountText(Len(argv)))
    /\ SlotHolds(F, FirstOccurrence(T, FLAGS_PATTERN), META_SIZE, MaskText(mask))
    /\ SlotHolds(F, FirstOccurrence(T, EXPORT_PATTERN), META_SIZE, ExportText(export))
    /\ \A i \in 1..Len(argv) : SlotHolds(F, NthRun(T, i - 1), ARG_SIZE, argv[i])

\* C1 as stated: for every template that contains the three sentinels and at
\* least |argv| runs of 256 '@', after a successful finalize_stub every patched
\* slot (located in T: first occurrence of each sentinel, i-th run of T) holds
\* its value followed by zero bytes up to the end of the slot.
C1_AsStated ==
    (Finalized /\ HasPlaceholders(tmpl, Len(fargv)))
        => SlotsHoldValues(tmpl, fres.data, fargv, fmask, fexport)

\* C1 amended: the same, for templates in which the three 32-byte metadata
\* slots and the first |argv| runs of 256 '@' are pairwise disjoint.
C1_SlotsHoldValues ==
    (/\ Finalized
     /\ HasPlaceholders(tmpl, Len(fargv))
     /\ RegionsDisjoint(SlotRegions(tmpl, Len(fargv))))
        => SlotsHoldValues(tmpl, fres.data, fargv, fmask, fexport)

\* C1 witness: a successful run on a template with disjoint slots that patched
\* two arguments, one of a single byte after one of the full 256 bytes
C1_Witness ==
    /\ fstage = "finalized" /\ fres.err = ""
    /\ HasPlaceholders(tmpl, Len(fargv))
    /\ RegionsDisjoint(SlotRegions(tmpl, Len(fargv)))
    /\ Len(fargv) = 2
    /\ Len(fargv[1]) = ARG_SIZE
    /\ Len(fargv[2]) = 1

\* the regions finalize_stub patched: 32 bytes at each metadata offset, 256
\* bytes at each argument offset
PatchedRegions(res) ==
    {<<res.meta[k], META_SIZE>> : k \in 1..Len(res.meta)}
      \cup {<<res.args[k], ARG_SIZE>> : k \in 1..Len(res.args)}

InRegion(b, r) == r[1] < b /\ b <= r[1] + r[2]

\* the template after the three metadata patches, which is the buffer whose
\* runs of 256 '@' the finalizer numbers
AfterMetadata(T, res) ==
    SubSeq([b \in 1..Len(T) |->
              IF \E k \in 1..Len(res.meta) : InRegion(b, <<res.meta[k], META_SIZE>>)
              THEN res.data[b] ELSE T[b]], 1, Len(T))

\* C2: after a successful finalize_stub the output has the length of the
\* template, every byte outside the patched slots is the template's byte, and
\* every ARG placeholder with index >= |argv| is still 256 '@'.
C2_FrameUnchanged ==
    Finalized =>
        /\ Len(fres.data) = Len(tmpl)
        /\ LET regions == PatchedRegions(fres)
           IN \A b \in 1..Len(tmpl) :
                 (\A r \in regions : ~InRegion(b, r)) => fres.data[b] = tmpl[b]
        /\ LET pre == AfterMetadata(tmpl, fres)
           IN \A i \in Len(fargv)..NumArgSlots :
                 NthRun(pre, i) # None
                     => OccursAt(fres.data, ARG_PATTERN, NthRun(pre, i))

\* C2 witness: a successful run that left bytes outside the slots and at least
\* one ARG placeholder unpatched
C2_Witness ==
    /\ fstage = "finalized" /\ fres.err = ""
    /\ Len(fargv) = 1
    /\ NthRun(AfterMetadata(tmpl, fres), 2) # None
    /\ LET regions == PatchedRegions(fres)
       IN \E b \in 1..Len(tmpl) :
             (\A r \in regions : ~InRegion(b, r)) /\ tmpl[b] = 144

\* C3: finalize_stub run on the output of an earlier successful finalize_stub
\* fails with 'ARGC placeholder not found' and produces no output.
C3_RefinalizeFails ==
    fstage = "refinalized"
        => rres.err = "ARGC placeholder not found" /\ rres.data = <<>>

\* replace_at of argument i of the run at the first run of 256 '@' of the
\* template
FirstSlotPatch(i) == replace_at(tmpl, NthRun(tmpl, 0), fargv[i], ARG_SIZE)

\* C16: replace_at returns the value-too-long error and leaves the buffer as
\* it was when the value is longer than the slot, and succeeds with the value
\* filling the slot when it is exactly as long; finalize_stub fails when an
\* embedded argument is longer than 256 bytes and never reports a value of
\* at most 256 bytes as too long.
C16_ValueTooLong ==
    fstage # "start"
        => /\ \A i \in 1..Len(fargv) :
                 NthRun(tmpl, 0) # None
                     => /\ Len(fargv[i]) > ARG_SIZE
                             => /\ FirstSlotPatch(i).err = "Value too long"
                                /\ FirstSlotPatch(i).data = tmpl
                        /\ Len(fargv[i]) = ARG_SIZE
                             => /\ FirstSlotPatch(i).err = ""
                                /\ Slice(FirstSlotPatch(i).data, NthRun(tmpl, 0),
                                         NthRun(tmpl, 0) + ARG_SIZE) = fargv[i]
           /\ (\E i \in 1..Len(fargv) : Len(fargv[i]) > ARG_SIZE)
                 => fres.err # "" /\ fres.data = <<>>
           /\ fres.err = "Value too long"
                 => \E i \in 1..Len(fargv) : Len(fargv[i]) > ARG_SIZE

\* C16 witness: a run whose first argument of exactly 256 bytes was patched
\* and whose second argument of 257 bytes was refused
C16_Witness ==
    /\ fstage = "finalized"
    /\ Len(fargv) = 2
    /\ Len(fargv[1]) = ARG_SIZE
    /\ Len(fargv[2]) = ARG_SIZE + 1
    /\ fres.err = "Value too long"

\* the output path names the file of the template
SameFile ==
    /\ output_path.some
    /\ canonicalize(InitialDisk(tmpl), output_path.value)
          = canonicalize(InitialDisk(tmpl), template_path)

\* C17: when the output path resolves to the file of the template,
\* finalize_stub fails (with the overwrite error, unless the argument count
\* was refused before) and every file, the template included, has the bytes
\* it had; the overwrite error is given in no other
\* case, so an output path that does not exist or names another file is not
\* rejected by the guard, and a successful run leaves its output there.
C17_OverwriteGuard ==
    fstage # "start"
        => /\ SameFile
                 => /\ fres.err # ""
                    /\ Len(fargv) \in 1..MAX_ARGS => fres.err = SAME_PATH
                    /\ fres.data = <<>>
                    /\ disk = InitialDisk(tmpl)
           /\ fres.err = SAME_PATH => SameFile
           /\ disk[Resolved(template_path)] = tmpl
           /\ (fres.err = "" /\ output_path.some)
                 => disk[Resolved(output_path.value)] = fres.data

\* C17 witness: the output path is a symbolic link to the template of a run
\* that would otherwise succeed, and the run was refused
C17_Witness ==
    /\ fstage = "finalized"
    /\ output_path = Some(P_LINK)
    /\ tmpl = TplSection
    /\ Len(fargv) = 1
    /\ fres.err = SAME_PATH
    /\ disk[P_TEMPLATE] = tmpl


(***************************************************************************)
(* Launcher (runfiles-stub): string helpers                                *)
(***************************************************************************)
\* length up to the first NUL, or the whole slice
str_len(s) ==
    IF \E i \in 1..Len(s) : s[i] = NUL
    THEN (CHOOSE i \in 1..Len(s) : s[i] = NUL /\ \A j \in 1..(i - 1) : s[j] # NUL) - 1
    ELSE Len(s)

str_eq(a, b) == Len(a) = Len(b) /\ \A i \in 1..Len(a) : a[i] = b[i]

str_starts_with(haystack, needle) ==
    IF Len(haystack) < Len(needle) THEN FALSE
    ELSE str_eq(Slice(haystack, 0, Len(needle)), needle)

\* 0-based index of the first needle byte, or None
find_byte(haystack, needle) ==
    IF \E i \in 1..Len(haystack) : haystack[i] = needle
    THEN (CHOOSE i \in 1..Len(haystack) :
             haystack[i] = needle /\ \A j \in 1..(i - 1) : haystack[j] # needle) - 1
    ELSE None

\* a launcher without the template check
never_template_placeholder(placeholder) == FALSE

is_template_placeholder(placeholder) ==
    IF Len(placeholder) < 17 THEN FALSE
    ELSE str_starts_with(placeholder, TEMPLATE_PREFIX)

\* the C string that starts at 0-based offset off of mem: the bytes up to the
\* first NUL at or after off (mem ends with a NUL)
CStrAt(mem, off) == Slice(mem, off, off + str_len(Slice(mem, off, Len(mem))))

(***************************************************************************)
(* Launcher: the metadata slots                                            *)
(***************************************************************************)
MAX_ARGC == 10

IsDigit(c) == c >= DIGIT0 /\ c <= DIGIT9

\* usize values are four 16-bit limbs, the most significant first
U64(n) == <<0, 0, 0, n>>

\* `argc * 10 + digit` in usize: the wrapped value, and whether it overflowed
U64MulAdd(v, d) ==
    LET l0 == v[4] * 10 + d
        l1 == v[3] * 10 + (l0 \div 65536)
        l2 == v[2] * 10 + (l1 \div 65536)
        l3 == v[1] * 10 + (l2 \div 65536)
    IN [value |-> <<l3 % 65536, l2 % 65536, l1 % 65536, l0 % 65536>>,
        overflow |-> l3 >= 65536]

\* `argc = argc * 10 + digit` over the first len bytes.  An overflow panics
\* in a build with overflow checks and wraps in a build without.
RECURSIVE ParseUsize(_, _, _)
ParseUsize(text, len, checks) ==
    IF len = 0 THEN [err |-> "", value |-> U64(0)]
    ELSE LET rest == ParseUsize(text, len - 1, checks)
             next == U64MulAdd(rest.value, text[len] - DIGIT0)
         IN IF rest.err # "" THEN rest
            ELSE IF ~IsDigit(text[len]) THEN [err |-> "non-digit", value |-> U64(0)]
            ELSE IF next.overflow /\ checks THEN [err |-> "panic", value |-> U64(0)]
            ELSE [err |-> "", value |-> next.value]

\* `transform_flags * 10 + digit` in u32: the wrapped value, and whether it
\* overflowed
U32MulAdd(v, d) ==
    LET lo == v[2] * 10 + d
        hi == v[1] * 10 + (lo \div 65536)
    IN [value |-> U32(hi % 65536, lo % 65536), overflow |-> hi >= 65536]

RECURSIVE ParseU32(_, _, _)
ParseU32(text, len, checks) ==
    IF len = 0 THEN [err |-> "", value |-> U32(0, 0)]
    ELSE LET rest == ParseU32(text, len - 1, checks)
             next == U32MulAdd(rest.value, text[len] - DIGIT0)
         IN IF rest.err # "" THEN rest
            ELSE IF ~IsDigit(text[len]) THEN [err |-> "non-digit", value |-> U32(0, 0)]
            ELSE IF next.overflow /\ checks THEN [err |-> "panic", value |-> U32(0, 0)]
            ELSE [err |-> "", value |-> next.value]

RECURSIVE Pow2(_)
Pow2(n) == IF n = 0 THEN 1 ELSE 2 * Pow2(n - 1)

\* (flags & (1 << i)) != 0
BitSet(flags, i) ==
    IF i < 16 THEN (flags[2] \div Pow2(i)) % 2 = 1
    ELSE (flags[1] \div Pow2(i - 16)) % 2 = 1

\* flags & argc_mask, argc_mask = (1 << n) - 1 below 32 bits
AndArgcMask(flags, n) ==
    IF n >= 32 THEN flags
    ELSE IF n >= 16 THEN U32(flags[1] % Pow2(n - 16), flags[2])
    ELSE U32(0, flags[2] % Pow2(n))

ALL_FLAGS == U32(65535, 65535)

\* the ARGC block of _start_rust / main; checks: the build has overflow checks
ParseArgc(slot, checks) ==
    LET argc_len == str_len(slot)
        parsed == ParseUsize(slot, argc_len, checks)
    IN IF argc_len = 0 THEN [err |-> "ARGC is empty", value |-> 0]
       ELSE IF parsed.err = "panic" THEN [err |-> "panic", value |-> 0]
       ELSE IF parsed.err # ""
            THEN [err |-> "ARGC contains non-digit characters", value |-> 0]
       ELSE IF parsed.value = U64(0)
                 \/ parsed.value[1] # 0 \/ parsed.value[2] # 0 \/ parsed.value[3] # 0
                 \/ parsed.value[4] > MAX_ARGC
            THEN [err |-> "Invalid argc (must be 1-10)", value |-> 0]
       ELSE [err |-> "", value |-> parsed.value[4]]

\* the TRANSFORM_FLAGS block
ParseTransformFlags(slot, checks) ==
    LET flags_len == str_len(slot)
        parsed == ParseU32(slot, flags_len, checks)
    IN IF ~is_template_placeholder(slot) /\ flags_len > 0
       THEN IF parsed.err = "panic" THEN [err |-> "panic", value |-> U32(0, 0)]
            ELSE IF parsed.err # ""
            THEN [err |-> "TRANSFORM_FLAGS contains non-digit characters",
                  value |-> U32(0, 0)]
            ELSE parsed
       ELSE [err |-> "", value |-> ALL_FLAGS]

\* the EXPORT_RUNFILES_ENV block: Linux tests == '1', macOS and Windows != '0'
ParseExportEnv(p, slot) ==
    IF ~is_template_placeholder(slot) /\ str_len(slot) > 0
    THEN IF p = "linux" THEN slot[1] = DIGIT0 + 1 ELSE slot[1] # DIGIT0
    ELSE TRUE

(***************************************************************************)
(* Launcher: the inherited environment                                     *)
(*                                                                         *)
(* An environment is a sequence of entries.  An entry is the byte string   *)
(* head followed by pad filler bytes ('x'), so that entries of megabytes   *)
(* keep the sizes the platform limits are about.  The key and the '=' of   *)
(* an entry lie in its head.                                               *)
(***************************************************************************)
Filler == <<120>>

Entry(head, pad) == [head |-> head, pad |-> pad]

EntryLen(e) == Len(e.head) + e.pad

\* byte i (from 1) of the entry
EntryByte(e, i) == IF i <= Len(e.head) THEN e.head[i] ELSE Filler[1]

\* the first n bytes of the entry
EntryTake(e, n) ==
    IF n >= EntryLen(e) THEN e
    ELSE IF n <= Len(e.head) THEN Entry(Slice(e.head, 0, n), 0)
    ELSE Entry(e.head, n - Len(e.head))

\* the n bytes of the entry after its first from bytes, as a byte string
EntryBytes(e, from, n) == [i \in 1..n |-> EntryByte(e, from + i)]

EntryStartsWith(e, prefix) ==
    /\ EntryLen(e) >= Len(prefix)
    /\ \A i \in 1..Len(prefix) : EntryByte(e, i) = prefix[i]

\* b"RUNFILES_MANIFEST_FILE"
RUNFILES_MANIFEST_FILE ==
    <<82, 85, 78, 70, 73, 76, 69, 83, 95, 77, 65, 78, 73, 70, 69, 83, 84, 95, 70, 73,
      76, 69>>
\* b"RUNFILES_DIR"
RUNFILES_DIR == <<82, 85, 78, 70, 73, 76, 69, 83, 95, 68, 73, 82>>
\* b"JAVA_RUNFILES"
JAVA_RUNFILES == <<74, 65, 86, 65, 95, 82, 85, 78, 70, 73, 76, 69, 83>>
\* b".runfiles_manifest"
DOT_RUNFILES_MANIFEST ==
    <<46, 114, 117, 110, 102, 105, 108, 101, 115, 95, 109, 97, 110, 105, 102, 101, 115,
      116>>
\* b".runfiles"
DOT_RUNFILES == <<46, 114, 117, 110, 102, 105, 108, 101, 115>>

MAX_PATH_LEN_POSIX == 256
MAX_PATH_LEN_WINDOWS == 512
MAX_PATH_LEN(p) == IF p = "windows" THEN MAX_PATH_LEN_WINDOWS ELSE MAX_PATH_LEN_POSIX

MAX_ENV_SIZE_LINUX == 6291456
MAX_ENV_SIZE_MACOS == 1048576
MAX_ENV_SIZE_WINDOWS == 16384
MAX_ENV_VARS == 1024
ENTRY_SCAN_LIMIT == 4096

\* sum over env[lo..hi] of the bytes an entry takes with its NUL
RECURSIVE EnvBytes(_, _, _)
EnvBytes(env, lo, hi) ==
    IF lo > hi THEN 0
    ELSE IF lo = hi THEN EntryLen(env[lo]) + 1
    ELSE LET mid == (lo + hi) \div 2
         IN EnvBytes(env, lo, mid) + EnvBytes(env, mid + 1, hi)

\* Linux: entry i of /proc/self/environ as far as it lies in the first
\* MAX_ENV_SIZE bytes that read() returns
ProcEnvironEntry(env, i) ==
    LET start == EnvBytes(env, 1, i - 1)
    IN IF start >= MAX_ENV_SIZE_LINUX THEN Entry(<<>>, 0)
       ELSE EntryTake(env[i], MAX_ENV_SIZE_LINUX - start)

\* macOS: the bytes of an entry the length scan of get_env_var covers
ScannedEntry(e) == EntryTake(e, ENTRY_SCAN_LIMIT + 1)

\* `if let Some(eq_pos) = find_byte(entry, b'=')` and `str_eq(key, name)`
EntryHasKey(e, name) ==
    LET eq_pos == find_byte(e.head, EQUALS)
    IN eq_pos # None /\ str_eq(Slice(e.head, 0, eq_pos), name)

\* the entry as get_env_var of the platform sees it
EntrySeen(p, env, i) ==
    IF p = "linux" THEN ProcEnvironEntry(env, i)
    ELSE IF p = "macos" THEN ScannedEntry(env[i])
    ELSE env[i]

\* get_env_var(name, buf) with buf of buf_len bytes: Some(value copied) or None.
\* Linux and macOS copy at most buf_len bytes of the first entry with the key;
\* Windows (GetEnvironmentVariableA) yields None for an empty value and for a
\* value that does not fit the buffer.
get_env_var(p, env, name, buf_len) ==
    LET hits == {i \in 1..Len(env) : EntryHasKey(env[i], name)}
        seen == {i \in hits : EntryHasKey(EntrySeen(p, env, i), name)}
    IN IF seen = {} THEN NoValue
       ELSE LET i == CHOOSE k \in seen : \A j \in seen : k <= j
                e == EntrySeen(p, env, i)
                eq_pos == find_byte(e.head, EQUALS)
                value_len == EntryLen(e) - (eq_pos + 1)
            IN IF p = "windows"
               THEN IF value_len > 0 /\ value_len < buf_len
                    THEN Some(EntryBytes(e, eq_pos + 1, value_len))
                    ELSE NoValue
               ELSE Some(EntryBytes(e, eq_pos + 1, Min2(value_len, buf_len)))

(***************************************************************************)
(* Launcher: manifest and runfiles discovery                               *)
(***************************************************************************)
NEWLINE == 10
CARRIAGE_RETURN == 13
BACKSLASH == 92
COLON == 58
FILE_BUF_SIZE == 65536
MAX_ENTRIES_POSIX == 1024
MAX_ENTRIES_WINDOWS == 256
MAX_ENTRIES(p) == IF p = "windows" THEN MAX_ENTRIES_WINDOWS ELSE MAX_ENTRIES_POSIX

\* 0-based offsets at which the line loop of load_manifest starts a line, in
\* file order
LineStarts(data) ==
    SelectSeq([i \in 1..Len(data) |-> i - 1], LAMBDA st : st = 0 \/ data[st] = NEWLINE)

\* the line that starts at offset start, without its '\n'
LineAt(data, start) ==
    LET rest == Slice(data, start, Len(data))
        nl == find_byte(rest, NEWLINE)
    IN IF nl = None THEN rest ELSE Slice(rest, 0, nl)

\* Manifest::add_entry arguments of a line, Windows stripping one trailing '\r'
LineEntry(p, line) ==
    LET space_pos == find_byte(line, SPACE)
        key == Slice(line, 0, space_pos)
        raw == Slice(line, space_pos + 1, Len(line))
        value == IF p = "windows" /\ Len(raw) > 0 /\ raw[Len(raw)] = CARRIAGE_RETURN
                 THEN Slice(raw, 0, Len(raw) - 1) ELSE raw
    IN [key |-> Slice(key, 0, Min2(Len(key), MAX_PATH_LEN(p))),
        value |-> Slice(value, 0, Min2(Len(value), MAX_PATH_LEN(p)))]

\* the entries load_manifest stores for the bytes read: one per line with a
\* space, in file order, the first MAX_ENTRIES of them
ManifestEntries(p, data) ==
    LET starts == SelectSeq(LineStarts(data),
                            LAMBDA st : find_byte(LineAt(data, st), SPACE) # None)
        count == Min2(Len(starts), MAX_ENTRIES(p))
    IN [k \in 1..count |-> LineEntry(p, LineAt(data, starts[k]))]

NoManifest == [ok |-> FALSE, entries |-> <<>>]

\* load_manifest(path): None when the file cannot be opened or read() returns
\* no bytes, else the entries of the first FILE_BUF_SIZE bytes
load_manifest(p, files, path) ==
    IF \E f \in files : f[1] = path /\ Len(f[2]) > 0
    THEN LET f == CHOOSE g \in files : g[1] = path
         IN [ok |-> TRUE,
             entries |-> ManifestEntries(p, Slice(f[2], 0, Min2(Len(f[2]), FILE_BUF_SIZE)))]
    ELSE NoManifest

\* a lookup that returns the value of the last entry with the key
lookup_last(entries, key) ==
    LET hits == {k \in 1..Len(entries) : str_eq(entries[k].key, key)}
    IN IF hits = {} THEN NoValue
       ELSE Some(entries[CHOOSE k \in hits : \A j \in hits : k >= j].value)

\* Manifest::lookup: the value of the first entry with the key
lookup(entries, key) ==
    LET hits == {k \in 1..Len(entries) : str_eq(entries[k].key, key)}
    IN IF hits = {} THEN NoValue
       ELSE Some(entries[CHOOSE k \in hits : \A j \in hits : k <= j].value)

\* access(path, F_OK) == 0 / CreateFileA(OPEN_EXISTING) on the directory
path_exists(files, dirs, path) == path \in dirs \/ \E f \in files : f[1] = path

NoRunfiles ==
    [some |-> FALSE, mode |-> "none", entries |-> <<>>, dir |-> <<>>,
     manifest_path |-> NoValue, dir_path |-> NoValue, source |-> "none"]

ManifestBased(entries, mpath, dpath, source) ==
    [some |-> TRUE, mode |-> "manifest", entries |-> entries, dir |-> <<>>,
     manifest_path |-> Some(mpath), dir_path |-> dpath, source |-> source]

DirectoryBased(dir, source) ==
    [some |-> TRUE, mode |-> "directory", entries |-> <<>>, dir |-> dir,
     manifest_path |-> NoValue, dir_path |-> Some(dir), source |-> source]

\* the part of Runfiles::create that looks next to the executable
CreateFromExecutable(p, files, dirs, executable_path) ==
    LET exe_len == str_len(executable_path.value)
        exe == Slice(executable_path.value, 0, exe_len)
        sibling == load_manifest(p, files, exe \o DOT_RUNFILES_MANIFEST)
    IN IF ~executable_path.some \/ exe_len = 0 THEN NoRunfiles
       ELSE IF p # "windows" /\ exe_len + 19 < MAX_PATH_LEN(p) /\ sibling.ok
       THEN ManifestBased(sibling.entries, exe \o DOT_RUNFILES_MANIFEST,
                          IF exe_len + 9 < MAX_PATH_LEN(p)
                          THEN Some(exe \o DOT_RUNFILES) ELSE NoValue,
                          "sibling manifest")
       ELSE IF exe_len + 10 < MAX_PATH_LEN(p)
               /\ path_exists(files, dirs, exe \o DOT_RUNFILES)
       THEN DirectoryBased(exe \o DOT_RUNFILES, "sibling directory")
       ELSE NoRunfiles

\* Runfiles::create(executable_path)
create(p, env, files, dirs, executable_path) ==
    LET m == get_env_var(p, env, RUNFILES_MANIFEST_FILE, MAX_PATH_LEN(p))
        loaded == load_manifest(p, files, m.value)
        d == get_env_var(p, env, RUNFILES_DIR, MAX_PATH_LEN(p))
    IN IF m.some /\ Len(m.value) > 0 /\ loaded.ok
       THEN ManifestBased(loaded.entries, m.value, NoValue, "env manifest")
       ELSE IF d.some /\ Len(d.value) > 0
       THEN DirectoryBased(d.value, "env directory")
       ELSE CreateFromExecutable(p, files, dirs, executable_path)

(***************************************************************************)
(* Launcher: resolving the embedded arguments                              *)
(***************************************************************************)
\* a buffer of n bytes, zeroed, with v copied to its start
Buffer(v, n) == v \o Rep(NUL, n - Len(v))

IsAlpha(c) == (c >= 65 /\ c <= 90) \/ (c >= 97 /\ c <= 122)

\* the test at the top of rlocation
IsAbsolute(p, path) ==
    IF p = "windows"
    THEN Len(path) >= 2 /\ (\/ IsAlpha(path[1]) /\ path[2] = COLON
                            \/ path[1] = BACKSLASH /\ path[2] = BACKSLASH)
    ELSE Len(path) > 0 /\ path[1] = SLASH

\* Windows: forward slashes become backslashes
ToBackslashes(v) == [i \in 1..Len(v) |-> IF v[i] = SLASH THEN BACKSLASH ELSE v[i]]

NotResolved == [some |-> FALSE, value |-> <<>>, panic |-> FALSE]

\* rlocation that puts a separator after every base directory
rlocation_always_separating(p, rf, path) ==
    IF IsAbsolute(p, path) THEN NotResolved
    ELSE IF rf.mode = "manifest"
    THEN LET resolved == lookup(rf.entries, path)
             len == Min2(Len(resolved.value), MAX_PATH_LEN(p))
             copied == Slice(resolved.value, 0, len)
         IN IF ~resolved.some THEN NotResolved
            ELSE IF p = "windows"
            THEN IF len >= MAX_PATH_LEN(p)
                 THEN [some |-> TRUE, value |-> <<>>, panic |-> TRUE]
                 ELSE [some |-> TRUE, panic |-> FALSE,
                       value |-> Buffer(ToBackslashes(copied), MAX_PATH_LEN(p))]
            ELSE [some |-> TRUE, panic |-> FALSE,
                  value |-> Buffer(copied, MAX_PATH_LEN(p))]
    ELSE LET copy_len == Min2(Len(rf.dir), MAX_PATH_LEN(p))
             dir == Slice(rf.dir, 0, copy_len)
             last == dir[copy_len]
             sep == IF copy_len < MAX_PATH_LEN(p) /\ copy_len > 0
                    THEN <<IF p = "windows" THEN BACKSLASH ELSE SLASH>>
                    ELSE <<>>
             pos == copy_len + Len(sep)
             path_len == Min2(Len(path), MAX_PATH_LEN(p) - pos)
             tail == Slice(path, 0, path_len)
             total_len == pos + path_len
         IN IF p = "windows"
            THEN IF total_len >= MAX_PATH_LEN(p)
                 THEN [some |-> TRUE, value |-> <<>>, panic |-> TRUE]
                 ELSE [some |-> TRUE, panic |-> FALSE,
                       value |-> Buffer(dir \o sep \o ToBackslashes(tail),
                                        MAX_PATH_LEN(p))]
            ELSE [some |-> TRUE, panic |-> FALSE,
                  value |-> Buffer(dir \o sep \o tail, MAX_PATH_LEN(p))]

\* Runfiles::rlocation(path): None, or Some(buffer of MAX_PATH_LEN bytes).
\* Windows writes a NUL at index len of the buffer of 512 bytes, which is
\* outside the buffer when len = 512: panic.
rlocation(p, rf, path) ==
    IF IsAbsolute(p, path) THEN NotResolved
    ELSE IF rf.mode = "manifest"
    THEN LET resolved == lookup(rf.entries, path)
             len == Min2(Len(resolved.value), MAX_PATH_LEN(p))
             copied == Slice(resolved.value, 0, len)
         IN IF ~resolved.some THEN NotResolved
            ELSE IF p = "windows"
            THEN IF len >= MAX_PATH_LEN(p)
                 THEN [some |-> TRUE, value |-> <<>>, panic |-> TRUE]
                 ELSE [some |-> TRUE, panic |-> FALSE,
                       value |-> Buffer(ToBackslashes(copied), MAX_PATH_LEN(p))]
            ELSE [some |-> TRUE, panic |-> FALSE,
                  value |-> Buffer(copied, MAX_PATH_LEN(p))]
    ELSE LET copy_len == Min2(Len(rf.dir), MAX_PATH_LEN(p))
             dir == Slice(rf.dir, 0, copy_len)
             last == dir[copy_len]
             sep == IF copy_len < MAX_PATH_LEN(p) /\ copy_len > 0
                       /\ last # (IF p = "windows" THEN BACKSLASH ELSE SLASH)
                       /\ (p = "windows" => last # SLASH)
                    THEN <<IF p = "windows" THEN BACKSLASH ELSE SLASH>>
                    ELSE <<>>
             pos == copy_len + Len(sep)
             path_len == Min2(Len(path), MAX_PATH_LEN(p) - pos)
             tail == Slice(path, 0, path_len)
             total_len == pos + path_len
         IN IF p = "windows"
            THEN IF total_len >= MAX_PATH_LEN(p)
                 THEN [some |-> TRUE, value |-> <<>>, panic |-> TRUE]
                 ELSE [some |-> TRUE, panic |-> FALSE,
                       value |-> Buffer(dir \o sep \o ToBackslashes(tail),
                                        MAX_PATH_LEN(p))]
            ELSE [some |-> TRUE, panic |-> FALSE,
                  value |-> Buffer(dir \o sep \o tail, MAX_PATH_LEN(p))]

\* `resolved_paths[i][..copy_len].copy_from_slice(&arg_slice[..copy_len])`
CopyAsIs(p, arg_slice) ==
    Buffer(Slice(arg_slice, 0, Min2(Len(arg_slice), MAX_PATH_LEN(p))), MAX_PATH_LEN(p))

\* the loop `for i in 0..argc` over the embedded arguments, from index i on:
\* err is "" when the loop completes, paths the buffers filled, calls the
\* indices given to rlocation
RECURSIVE ResolveEmbedded(_, _, _, _, _, _, _)
ResolveEmbedded(p, args, n, flags, rf, i, acc) ==
    IF i >= n THEN acc
    ELSE LET arg_data == args[i + 1]
             arg_len == str_len(arg_data)
             arg_slice == Slice(arg_data, 0, arg_len)
             should_transform == BitSet(flags, i)
             resolved == rlocation(p, rf, arg_slice)
         IN IF arg_len = 0 THEN [acc EXCEPT !.err = "Argument is empty"]
            ELSE IF should_transform /\ rf.some
            THEN IF resolved.panic
                 THEN [acc EXCEPT !.err = "panic", !.calls = Append(@, i)]
                 ELSE ResolveEmbedded(p, args, n, flags, rf, i + 1,
                        [err |-> "",
                         paths |-> Append(acc.paths,
                                          IF resolved.some THEN resolved.value
                                          ELSE CopyAsIs(p, arg_slice)),
                         calls |-> Append(acc.calls, i)])
            ELSE ResolveEmbedded(p, args, n, flags, rf, i + 1,
                   [acc EXCEPT !.paths = Append(@, CopyAsIs(p, arg_slice))])

(***************************************************************************)
(* Launcher: runtime arguments                                             *)
(***************************************************************************)
MAX_TOTAL_ARGS == 128
TAB == 9
QUOTE == 34
CMDLINE_WIDE_LEN == 8192

\* POSIX: executable_path, from runtime argv[0] scanned for at most
\* MAX_PATH_LEN bytes
ExecutablePath(p, argv) ==
    IF Len(argv) > 0 /\ Len(argv[1]) > 0
    THEN Some(Slice(argv[1], 0, Min2(Len(argv[1]), MAX_PATH_LEN(p))))
    ELSE NoValue

\* POSIX: the loop `for i in 1..runtime_argc` that copies at most MAX_PATH_LEN
\* bytes of each runtime argument into the next buffer
AppendRuntimeArgs(p, paths, argv) ==
    IF Len(argv) > 1 /\ Len(paths) + (Len(argv) - 1) > MAX_TOTAL_ARGS
    THEN [err |-> "Too many total arguments", paths |-> paths]
    ELSE [err |-> "",
          paths |-> paths \o [k \in 1..(Len(argv) - 1) |-> CopyAsIs(p, argv[k + 1])]]

\* 0-based offset of the first byte of c at or after pos that is in stops, or
\* Len(c), where the terminating NUL of the command line is
FindFrom(c, pos, stops) ==
    IF \E i \in (pos + 1)..Len(c) : c[i] \in stops
    THEN (CHOOSE i \in (pos + 1)..Len(c) :
             c[i] \in stops /\ \A j \in (pos + 1)..(i - 1) : c[j] \notin stops) - 1
    ELSE Len(c)

\* 0-based offset of the first byte at or after pos that is no blank
SkipBlanks(c, pos) ==
    IF \E i \in (pos + 1)..Len(c) : c[i] \notin {SPACE, TAB}
    THEN (CHOOSE i \in (pos + 1)..Len(c) :
             c[i] \notin {SPACE, TAB} /\ \A j \in (pos + 1)..(i - 1) : c[j] \in {SPACE, TAB})
         - 1
    ELSE Len(c)

\* Windows: offset after argv[0] in the command line (parse_command_line)
AfterArgv0(c) ==
    LET start == SkipBlanks(c, 0)
    IN IF start < Len(c) /\ c[start + 1] = QUOTE
       THEN LET close == FindFrom(c, start + 1, {QUOTE})
            IN IF close < Len(c) THEN close + 1 ELSE close
       ELSE FindFrom(c, start, {SPACE, TAB})

\* Windows: one pass of the loop body of parse_command_line from offset
\* st.pos: skip blanks, then take a quoted or a blank-delimited argument
ParseOneArgument(c, st) ==
    IF st.pos >= Len(c) THEN st
    ELSE LET arg_start == SkipBlanks(c, st.pos)
         IN IF arg_start >= Len(c) THEN [pos |-> Len(c), args |-> st.args]
            ELSE IF c[arg_start + 1] = QUOTE
            THEN LET close == FindFrom(c, arg_start + 1, {QUOTE})
                 IN [pos |-> IF close < Len(c) THEN close + 1 ELSE close,
                     args |-> Append(st.args, Slice(c, arg_start + 1, close))]
            ELSE LET end == FindFrom(c, arg_start, {SPACE, TAB})
                 IN [pos |-> end, args |-> Append(st.args, Slice(c, arg_start, end))]

\* Windows: the loop `while *cmdline.add(pos) != 0 && argc < 128`, as at most
\* n passes of its body from state st
RECURSIVE ParseArguments(_, _, _)
ParseArguments(c, st, n) ==
    IF n = 0 THEN st
    ELSE IF n = 1 THEN ParseOneArgument(c, st)
    ELSE LET left == ParseArguments(c, st, n \div 2)
         IN IF left.pos >= 0 /\ Len(left.args) >= 0
            THEN ParseArguments(c, left, n - (n \div 2))
            ELSE left

\* Windows: parse_command_line, the arguments after argv[0]
parse_command_line(c) ==
    ParseArguments(c, [pos |-> AfterArgv0(c), args |-> <<>>], MAX_TOTAL_ARGS).args

\* Windows: argv[0] extracted by main for the runfiles fallback
WindowsExecutablePath(c) ==
    LET start == SkipBlanks(c, 0)
        quoted == start < Len(c) /\ c[start + 1] = QUOTE
        from == IF quoted THEN start + 1 ELSE start
        stop == IF quoted THEN FindFrom(c, from, {QUOTE})
                ELSE FindFrom(c, from, {SPACE, TAB})
        exe_len == Min2(stop - from, MAX_PATH_LEN_WINDOWS)
    IN IF exe_len > 0 THEN Some(Slice(c, from, from + exe_len)) ELSE NoValue

\* Windows: append piece to the command line buffer as far as it has room
AppendWide(acc, piece) ==
    Slice(acc \o piece, 0, Min2(Len(acc) + Len(piece), CMDLINE_WIDE_LEN))

\* Windows: one argument of the command line, quoted when it holds a space
Quoted(arg) ==
    IF find_byte(arg, SPACE) # None THEN <<QUOTE>> \o arg \o <<QUOTE>> ELSE arg

\* Windows: the command line built from args[lo..hi], a space after every
\* argument but the last of args
RECURSIVE AppendArguments(_, _, _, _)
AppendArguments(acc, args, lo, hi) ==
    IF lo > hi THEN acc
    ELSE IF lo = hi
    THEN AppendWide(AppendWide(acc, Quoted(args[lo])),
                    IF lo < Len(args) THEN <<SPACE>> ELSE <<>>)
    ELSE LET mid == (lo + hi) \div 2
             left == AppendArguments(acc, args, lo, mid)
         IN IF Len(left) >= 0 THEN AppendArguments(left, args, mid + 1, hi)
            ELSE left

\* Windows: cmdline_wide of main, from the resolved buffers and the parsed
\* runtime arguments
BuildCommandLine(paths, runtime_args) ==
    LET args == [i \in 1..Len(paths) |-> Slice(paths[i], 0, str_len(paths[i]))]
                    \o runtime_args
    IN AppendArguments(<<>>, args, 1, Len(args))

(***************************************************************************)
(* Launcher: the child's environment                                       *)
(***************************************************************************)
\* b"KEY=" of the three runfiles variables
KeyPrefix(key) == key \o <<EQUALS>>

\* POSIX: `starts_with(b"RUNFILES_MANIFEST_FILE=") || ...`
is_runfiles_var(e) ==
    \/ EntryStartsWith(e, KeyPrefix(RUNFILES_MANIFEST_FILE))
    \/ EntryStartsWith(e, KeyPrefix(RUNFILES_DIR))
    \/ EntryStartsWith(e, KeyPrefix(JAVA_RUNFILES))

\* Windows: `entry_len > 23 && prefix matches || entry_len > 13 && ... ||
\* entry_len > 14 && ...`
should_skip_windows(e) ==
    \/ EntryLen(e) > 23 /\ EntryStartsWith(e, KeyPrefix(RUNFILES_MANIFEST_FILE))
    \/ EntryLen(e) > 13 /\ EntryStartsWith(e, KeyPrefix(RUNFILES_DIR))
    \/ EntryLen(e) > 14 /\ EntryStartsWith(e, KeyPrefix(JAVA_RUNFILES))

\* size of the buffer the platform builds the environment in, in its units
EnvCapacity(p) ==
    IF p = "linux" THEN MAX_ENV_SIZE_LINUX
    ELSE IF p = "macos" THEN MAX_ENV_SIZE_MACOS
    ELSE MAX_ENV_SIZE_WINDOWS \div 2

\* state of the build: data_pos, the entries stored, the flags of the loop
EmptyBuild ==
    [data_pos |-> 0, out |-> <<>>, failed |-> "", env_dropped |-> FALSE,
     stopped |-> FALSE]

\* the add_env_var closure, and what its caller does with `false`: Linux and
\* macOS print and exit, Windows ignores the result
add_env_var(p, st, name, value) ==
    LET fits == /\ st.data_pos + Len(name) + 1 + Len(value) + 1 <= EnvCapacity(p)
                /\ (p # "windows" => Len(st.out) < MAX_ENV_VARS)
    IN IF st.failed # "" THEN st
       ELSE IF fits
       THEN [st EXCEPT !.data_pos = @ + Len(name) + 1 + Len(value) + 1,
                       !.out = Append(@, Entry(name \o <<EQUALS>> \o value, 0))]
       ELSE IF p = "windows" THEN st
       ELSE [st EXCEPT !.failed = "Failed to add variable"]

\* "Add runfiles environment variables first"
AddRunfilesVars(p, rf) ==
    LET s1 == IF rf.some /\ rf.manifest_path.some
              THEN add_env_var(p, EmptyBuild, RUNFILES_MANIFEST_FILE,
                               rf.manifest_path.value)
              ELSE EmptyBuild
        s2 == IF rf.some /\ rf.dir_path.some
              THEN add_env_var(p, s1, RUNFILES_DIR, rf.dir_path.value)
              ELSE s1
    IN IF rf.some /\ rf.dir_path.some
       THEN add_env_var(p, s2, JAVA_RUNFILES, rf.dir_path.value)
       ELSE s2

\* one iteration of the loop that copies the inherited environment
CopyEntry(p, st, e) ==
    IF p = "linux"
    THEN IF is_runfiles_var(e) THEN st
         ELSE IF st.data_pos + EntryLen(e) + 1 <= MAX_ENV_SIZE_LINUX
                 /\ Len(st.out) < MAX_ENV_VARS
         THEN [st EXCEPT !.data_pos = @ + EntryLen(e) + 1, !.out = Append(@, e)]
         ELSE [st EXCEPT !.env_dropped = TRUE]
    ELSE IF p = "macos"
    THEN LET entry == EntryTake(e, ENTRY_SCAN_LIMIT)
         IN IF st.stopped \/ ~(Len(st.out) < MAX_ENV_VARS)
            THEN [st EXCEPT !.stopped = TRUE]
            ELSE IF is_runfiles_var(entry) THEN st
            ELSE IF st.data_pos + EntryLen(entry) + 1 <= MAX_ENV_SIZE_MACOS
            THEN [st EXCEPT !.data_pos = @ + EntryLen(entry) + 1,
                            !.out = Append(@, entry)]
            ELSE [st EXCEPT !.env_dropped = TRUE]
    ELSE IF should_skip_windows(e) THEN st
         ELSE IF st.data_pos + EntryLen(e) + 1 <= EnvCapacity(p)
         THEN [st EXCEPT !.data_pos = @ + EntryLen(e) + 1, !.out = Append(@, e)]
         ELSE st

\* the copy loop over env[lo..hi], in order
RECURSIVE CopyLoop(_, _, _, _, _)
CopyLoop(p, env, lo, hi, st) ==
    IF lo > hi THEN st
    ELSE IF lo = hi THEN CopyEntry(p, st, env[lo])
    ELSE LET mid == (lo + hi) \div 2
             left == CopyLoop(p, env, lo, mid, st)
         IN IF left.data_pos >= 0 THEN CopyLoop(p, env, mid + 1, hi, left) ELSE left

\* the entries the platform hands to the loop: Linux the non-empty strings
\* of /proc/self/environ, macOS environ, Windows the block of
\* GetEnvironmentStringsW up to its first empty string
BaseEntries(p, env) ==
    IF p = "linux" THEN SelectSeq(env, LAMBDA e : EntryLen(e) > 0)
    ELSE IF p = "macos" THEN env
    ELSE IF \E i \in 1..Len(env) : EntryLen(env[i]) = 0
    THEN Slice(env, 0, (CHOOSE i \in 1..Len(env) :
                           EntryLen(env[i]) = 0
                           /\ \A j \in 1..(i - 1) : EntryLen(env[j]) > 0) - 1)
    ELSE env

\* Linux get_environ: exit when read() filled the buffer, or when entries are
\* left after MAX_ENV_VARS of them
get_environ(env) ==
    LET base == BaseEntries("linux", env)
    IN IF EnvBytes(env, 1, Len(env)) >= MAX_ENV_SIZE_LINUX
       THEN [err |-> "Environment data exceeds buffer limit", env |-> <<>>]
       ELSE IF \/ Len(base) > MAX_ENV_VARS
               \/ Len(base) = MAX_ENV_VARS /\ EntryLen(env[Len(env)]) = 0
       THEN [err |-> "Number of environment variables exceeds limit", env |-> <<>>]
       ELSE [err |-> "", env |-> base]

\* build_runfiles_environ(runfiles)
build_runfiles_environ(p, rf, env) ==
    LET base == IF p = "linux" THEN get_environ(env)
                ELSE [err |-> "", env |-> BaseEntries(p, env)]
        added == AddRunfilesVars(p, rf)
        built == CopyLoop(p, base.env, 1, Len(base.env), added)
    IN IF base.err # "" THEN base
       ELSE IF p = "linux" /\ ~rf.some THEN base
       ELSE IF added.failed # "" THEN [err |-> added.failed, env |-> <<>>]
       ELSE IF built.env_dropped
       THEN [err |-> "Failed to copy all environment variables", env |-> <<>>]
       ELSE [err |-> "", env |-> built.out]

\* the envp of the handoff: built when export_runfiles_env, else the
\* inherited environment (Linux through get_environ)
ChildEnvironment(p, export, rf, env) ==
    IF export THEN build_runfiles_environ(p, rf, env)
    ELSE IF p = "linux" THEN get_environ(env)
    ELSE [err |-> "", env |-> env]

(***************************************************************************)
(* Launcher: handoff                                                       *)
(***************************************************************************)
\* POSIX: the C string execve reads at buffer i of resolved_paths.  The 128
\* buffers are contiguous: a buffer without a NUL runs on into the next one;
\* after holds the bytes that follow the array.
RECURSIVE ArgumentAt(_, _, _)
ArgumentAt(paths, i, after) ==
    IF i > Len(paths) THEN CStrAt(after, 0)
    ELSE IF str_len(paths[i]) < Len(paths[i]) THEN CStrAt(paths[i], 0)
    ELSE paths[i] \o ArgumentAt(paths, i + 1, after)

\* POSIX: the argv the child receives
ChildArgv(paths, after) == [i \in 1..Len(paths) |-> ArgumentAt(paths, i, after)]

\* the bytes after resolved_paths: a zeroed buffer follows the last one used
\* unless all 128 are used, and then whatever the stack holds there
BytesAfter(paths) ==
    IF Len(paths) < MAX_TOTAL_ARGS THEN {<<NUL>>} ELSE {<<NUL>>, <<1, NUL>>}

\* state is "none" before the call and when it failed, "running" once the
\* child was started and "terminated", with its exit code, when it has ended
NoChild ==
    [called |-> FALSE, argv |-> <<>>, cmdline |-> <<>>, envp |-> <<>>,
     state |-> "none", code |-> None, ret |-> 0]

(***************************************************************************)
(* Launcher: the runs explored                                             *)
(***************************************************************************)
\* byte strings of the runs: "t", "d", "/t", "C:\t", "\\s", "/r", "/m", "/o",
\* "/e", "/r/t", "/r/d", "/gone", "a", "a b", "c"
T_TOOL == <<116>>
T_DATA == <<100>>
T_ABS == <<47, 116>>
T_DRIVE == <<67, 58, 92, 116>>
T_UNC == <<92, 92, 115>>
T_DIR == <<47, 114>>
T_MANIFEST == <<47, 109>>
T_OLD == <<47, 111>>
T_EVIL == <<47, 101>>
T_RTOOL == <<47, 114, 47, 116>>
T_RDATA == <<47, 114, 47, 100>>
T_GONE == <<47, 103, 111, 110, 101>>
T_A == <<97>>
T_AB == <<97, 32, 98>>
T_C == <<99>>
\* "a<TAB>c"
T_A_TAB_C == <<97, TAB, 99>>
\* 256 bytes: "/bbb...", and 256 x 'b'
T_LONG_ABS == <<SLASH>> \o Rep(98, ARG_SIZE - 1)
T_LONG == Rep(98, ARG_SIZE)
\* a runtime argument of 300 bytes
T_RUNTIME_LONG == Rep(99, 300)

Platforms == {"linux", "macos", "windows"}

NumPlaceholders == 10

\* the placeholder statics in the order they are declared
STUB_TEMPLATE ==
    ARGC_PLACEHOLDER \o TRANSFORM_FLAGS \o EXPORT_RUNFILES_ENV
        \o Times(ARG_PLACEHOLDER, NumPlaceholders)

\* the statics of a binary that has the bytes data in its placeholder section
StubOf(data) ==
    [argc |-> Slice(data, 0, ARGC_SIZE),
     flags |-> Slice(data, ARGC_SIZE, ARGC_SIZE + META_SIZE),
     export |-> Slice(data, ARGC_SIZE + META_SIZE, ARGC_SIZE + 2 * META_SIZE),
     args |-> [i \in 1..NumPlaceholders |->
                 Slice(data, ARGC_SIZE + 2 * META_SIZE + (i - 1) * ARG_SIZE,
                       ARGC_SIZE + 2 * META_SIZE + i * ARG_SIZE)]]

\* the launcher finalize-stub writes for argv, mask, export
FinalizedStub(argv, mask, export) ==
    StubOf(finalize_stub(STUB_TEMPLATE, argv, mask, export).data)

\* a template launcher
PristineStub == StubOf(STUB_TEMPLATE)

\* a launcher in which every slot but ARGC was patched
ArgcLeftStub ==
    [FinalizedStub(<<T_TOOL>>, U32(0, 1), TRUE) EXCEPT !.argc = ARGC_PLACEHOLDER]

\* flags bit 0 set, export on: "t" is resolved, "d" is literal
StubTypical == FinalizedStub(<<T_TOOL, T_DATA>>, U32(0, 1), TRUE)
\* no flag, export off: the launcher needs no runfiles
StubNoTransform == FinalizedStub(<<T_TOOL, T_DATA>>, U32(0, 0), FALSE)
\* only the second argument flagged
StubSecondOnly == FinalizedStub(<<T_TOOL, T_DATA>>, U32(0, 2), FALSE)
\* flagged absolute paths: POSIX, Windows drive and UNC
StubAbs == FinalizedStub(<<T_ABS, T_DATA>>, U32(0, 3), TRUE)
StubDrive == FinalizedStub(<<T_DRIVE, T_UNC>>, U32(0, 3), FALSE)
\* a flagged absolute path that fills its slot
StubLongAbs == FinalizedStub(<<T_LONG_ABS, T_DATA>>, U32(0, 1), FALSE)
\* an unflagged literal that fills its slot, between two arguments
StubLongLiteral == FinalizedStub(<<T_TOOL, T_LONG, T_DATA>>, U32(0, 1), TRUE)
\* only flag bits at positions >= argc set, export off
StubHighBits == FinalizedStub(<<T_TOOL, T_DATA>>, U32(65535, 65532), FALSE)
\* ARGC slot "0"
StubArgcZero == [StubTypical EXCEPT !.argc = Buffer(<<DIGIT0>>, ARGC_SIZE)]

ArgStubs ==
    {PristineStub, ArgcLeftStub, StubTypical, StubNoTransform, StubSecondOnly,
     StubAbs, StubDrive, StubLongAbs, StubLongLiteral, StubArgcZero}

EnvStubs == {StubTypical, StubNoTransform, StubHighBits}

\* path of the launcher: "/s", on Windows "C:\s"
POSIX_EXE == <<47, 115>>
WINDOWS_EXE == <<67, 58, 92, 115>>
ExePath(p) == IF p = "windows" THEN WINDOWS_EXE ELSE POSIX_EXE

MaxRuntimeArgs == 2

RuntimeArgValues == {T_A, T_RUNTIME_LONG}

RECURSIVE RuntimeArgsUpTo(_)
RuntimeArgsUpTo(n) ==
    IF n = 0 THEN {<<>>}
    ELSE RuntimeArgsUpTo(n - 1)
         \cup {Append(r, a) : r \in {q \in RuntimeArgsUpTo(n - 1) : Len(q) = n - 1},
                              a \in RuntimeArgValues}

\* POSIX: the argv arrays a run is started with
RuntimeArgvs == {<<POSIX_EXE>> \o r : r \in RuntimeArgsUpTo(MaxRuntimeArgs)}

\* Windows: the command lines a run is started with:
\*   C:\s     C:\s a     "C:\s" "a b" c     C:\s ccc...c (300 bytes)
\*   C:\s "a<TAB>c"
CommandLines ==
    {WINDOWS_EXE,
     WINDOWS_EXE \o <<SPACE>> \o T_A,
     <<QUOTE>> \o WINDOWS_EXE \o <<QUOTE, SPACE, QUOTE>> \o T_AB
         \o <<QUOTE, SPACE>> \o T_C,
     WINDOWS_EXE \o <<SPACE>> \o T_RUNTIME_LONG,
     WINDOWS_EXE \o <<SPACE, QUOTE>> \o T_A_TAB_C \o <<QUOTE>>}

\* one manifest line
Line(key, value) == key \o <<SPACE>> \o value \o <<NEWLINE>>

\* the manifest of the runs; it has entries for the absolute spellings too
ManifestText ==
    Line(T_TOOL, T_RTOOL) \o Line(T_ABS, T_EVIL) \o Line(T_DRIVE, T_EVIL)
        \o Line(T_UNC, T_EVIL) \o Line(T_LONG_ABS, T_EVIL) \o Line(T_DATA, T_RDATA)

\* file systems: everything; nothing; only one of the siblings
FSAll(p) ==
    [files |-> {<<T_MANIFEST, ManifestText>>,
                <<ExePath(p) \o DOT_RUNFILES_MANIFEST, ManifestText>>},
     dirs |-> {T_DIR, ExePath(p) \o DOT_RUNFILES}]
FSNone == [files |-> {}, dirs |-> {}]
FSSiblingManifest(p) ==
    [files |-> {<<ExePath(p) \o DOT_RUNFILES_MANIFEST, ManifestText>>}, dirs |-> {}]
FSSiblingDir(p) == [files |-> {}, dirs |-> {ExePath(p) \o DOT_RUNFILES}]

FileSystems(p) == {FSAll(p), FSNone, FSSiblingManifest(p), FSSiblingDir(p)}

\* "A=1", "V=", "B=", "L="
A_IS_1 == <<65, 61, 49>>
V_IS == <<86, 61>>
B_IS == <<66, 61>>
L_IS == <<76, 61>>

E_A == Entry(A_IS_1, 0)
E_MANIFEST == Entry(KeyPrefix(RUNFILES_MANIFEST_FILE) \o T_MANIFEST, 0)
E_MANIFEST_GONE == Entry(KeyPrefix(RUNFILES_MANIFEST_FILE) \o T_GONE, 0)
E_DIR == Entry(KeyPrefix(RUNFILES_DIR) \o T_DIR, 0)
E_JAVA == Entry(KeyPrefix(JAVA_RUNFILES) \o T_OLD, 0)
\* RUNFILES_DIR=/r/
E_DIR_SLASH == Entry(KeyPrefix(RUNFILES_DIR) \o T_DIR \o <<SLASH>>, 0)
E_MANIFEST_EMPTY == Entry(KeyPrefix(RUNFILES_MANIFEST_FILE), 0)
E_DIR_EMPTY == Entry(KeyPrefix(RUNFILES_DIR), 0)
E_JAVA_EMPTY == Entry(KeyPrefix(JAVA_RUNFILES), 0)

\* no runfiles variable; a manifest; a directory
EnvPlain == <<E_A>>
EnvManifest == <<E_MANIFEST, E_A>>
EnvDir == <<E_A, E_DIR>>
\* a directory, with an empty manifest variable and a JAVA_RUNFILES of another run
EnvStale == <<E_MANIFEST_EMPTY, E_DIR, E_JAVA, E_A>>
\* the three variables set and empty
EnvEmptyValued == <<E_JAVA_EMPTY, E_A, E_DIR_EMPTY, E_MANIFEST_EMPTY>>
\* a manifest variable naming a file that is not there, and a directory
EnvGone == <<E_MANIFEST_GONE, E_DIR, E_A>>

\* k entries "V=x", "V=xx", ...
Numbered(k) == [i \in 1..k |-> Entry(V_IS, i)]

\* with the two variables of directory mode: MAX_ENV_VARS entries, and one more
EnvCountFit == <<E_DIR>> \o Numbered(MAX_ENV_VARS - 2)
EnvCountOver == <<E_DIR>> \o Numbered(MAX_ENV_VARS - 1)

\* Linux: the inherited bytes fit the buffer, with the two variables they do not
EnvBigLinux == <<E_DIR, Entry(B_IS, MAX_ENV_SIZE_LINUX - 30)>>
\* Linux: the inherited bytes fill the read buffer
EnvHugeLinux == <<E_DIR, Entry(B_IS, MAX_ENV_SIZE_LINUX)>>
\* macOS: entries of ENTRY_SCAN_LIMIT bytes, more than the buffer holds
EnvBigMacos ==
    <<E_DIR>> \o [i \in 1..((MAX_ENV_SIZE_MACOS \div ENTRY_SCAN_LIMIT) + 1) |->
                    Entry(B_IS, ENTRY_SCAN_LIMIT - 2)]
\* Windows: an entry as long as the buffer, between two short ones
EnvBigWindows == <<E_DIR, Entry(B_IS, EnvCapacity("windows") - 2), E_A>>
\* an entry longer than ENTRY_SCAN_LIMIT
EnvLongEntry == <<E_DIR, Entry(L_IS, ENTRY_SCAN_LIMIT + 900), E_A>>

CommonEnvironments ==
    {EnvPlain, EnvManifest, EnvDir, EnvStale, EnvEmptyValued, EnvGone, EnvLongEntry}

Environments(p) ==
    CommonEnvironments
        \cup (IF p = "linux"
              THEN {EnvCountFit, EnvCountOver, EnvBigLinux, EnvHugeLinux}
              ELSE IF p = "macos" THEN {EnvCountFit, EnvCountOver, EnvBigMacos}
              ELSE {EnvBigWindows})

\* how a run is started: POSIX argv, Windows command line
Invocations(p) ==
    IF p = "windows" THEN {[argv |-> <<>>, cmdline |-> c] : c \in CommandLines}
    ELSE {[argv |-> a, cmdline |-> <<>>] : a \in RuntimeArgvs}

PlainInvocation(p) ==
    IF p = "windows" THEN [argv |-> <<>>, cmdline |-> WINDOWS_EXE]
    ELSE [argv |-> <<POSIX_EXE>>, cmdline |-> <<>>]

\* runs that vary the embedded and the runtime arguments
ArgRuns ==
    UNION {{[platform |-> p, stub |-> s, inv |-> v, env |-> e, fs |-> FSAll(p)] :
               s \in ArgStubs, v \in Invocations(p), e \in {EnvManifest, EnvDir}} :
           p \in Platforms}

\* runs that vary the environment and the files
EnvRuns ==
    UNION {{[platform |-> p, stub |-> s, inv |-> PlainInvocation(p), env |-> e,
             fs |-> f] :
               s \in EnvStubs, e \in Environments(p), f \in FileSystems(p)} :
           p \in Platforms}

\* the launcher started with k runtime arguments "a"
ManyArguments(p, k) ==
    IF p = "windows"
    THEN [argv |-> <<>>,
          cmdline |-> WINDOWS_EXE
                        \o [i \in 1..(2 * k) |-> IF i % 2 = 1 THEN SPACE ELSE T_A[1]]]
    ELSE [argv |-> <<POSIX_EXE>> \o [i \in 1..k |-> T_A], cmdline |-> <<>>]

\* runs around the cap: with the two embedded arguments a total of
\* MAX_TOTAL_ARGS, one more, and three more
CapRuns ==
    {[platform |-> p, stub |-> StubTypical, inv |-> ManyArguments(p, k),
      env |-> EnvDir, fs |-> FSNone] :
        p \in Platforms,
        k \in {MAX_TOTAL_ARGS - 2, MAX_TOTAL_ARGS - 1, MAX_TOTAL_ARGS + 1}}

\* manifests of the runs that vary the manifest file:
\*   lines that end in "\r\n"
\*   a line without a space, then an entry, the last line without '\n'
\*   a value that holds spaces
\*   a line "t " with nothing after the space, then an entry
\*   a line "t \r" with only '\r' after the space, then an entry
ManifestCRLF ==
    T_TOOL \o <<SPACE>> \o T_RTOOL \o <<CARRIAGE_RETURN, NEWLINE>>
        \o T_DATA \o <<SPACE>> \o T_RDATA \o <<CARRIAGE_RETURN, NEWLINE>>
ManifestNoSpaceLine ==
    T_C \o <<NEWLINE>> \o Line(T_TOOL, T_RTOOL) \o T_DATA \o <<SPACE>> \o T_RDATA
ManifestSpacesInValue == Line(T_TOOL, T_DIR \o <<SLASH>> \o T_AB)
ManifestNoValue == Line(T_TOOL, <<>>) \o Line(T_DATA, T_RDATA)
ManifestNoValueCR ==
    Line(T_TOOL, <<CARRIAGE_RETURN>>) \o Line(T_DATA, T_RDATA)

ManifestTexts ==
    {ManifestCRLF, ManifestNoSpaceLine, ManifestSpacesInValue, ManifestNoValue,
     ManifestNoValueCR}

\* runs that vary the manifest named by RUNFILES_MANIFEST_FILE
ManifestRuns ==
    {[platform |-> p, stub |-> StubTypical, inv |-> PlainInvocation(p),
      env |-> EnvManifest, fs |-> [files |-> {<<T_MANIFEST, text>>}, dirs |-> {}]] :
        p \in Platforms, text \in ManifestTexts}

\* contents of the EXPORT_RUNFILES_ENV slot: "0", "1", "2", "01", ""
ExportContents == {<<DIGIT0>>, <<DIGIT0 + 1>>, <<DIGIT0 + 2>>, <<DIGIT0, DIGIT0 + 1>>, <<>>}

\* launchers without a flagged argument whose EXPORT_RUNFILES_ENV slot holds
\* each of the contents, or was left unpatched
ExportStubs ==
    {[StubNoTransform EXCEPT !.export = Buffer(c, META_SIZE)] : c \in ExportContents}
      \cup {[StubNoTransform EXCEPT !.export = EXPORT_RUNFILES_ENV]}

\* the decimal digits of n, 0 <= n <= 9, n times over: Digits(<<1, 0>>) = "10"
Digits(ds) == [i \in 1..Len(ds) |-> DIGIT0 + ds[i]]

\* 2^64 + 1 = 18446744073709551617, which is 1 in a wrapping usize
T_WRAPS_TO_ONE == Digits(<<1, 8, 4, 4, 6, 7, 4, 4, 0, 7, 3, 7, 0, 9, 5, 5, 1, 6, 1, 7>>)

\* contents of the ARGC slot: "", "a", "1a", "0", "11", "01", "2", 2^64 + 1,
\* and 31 zeros before a "2", which fill the slot
ArgcContents ==
    {<<>>, <<97>>, <<DIGIT0 + 1, 97>>, <<DIGIT0>>, Digits(<<1, 1>>), Digits(<<0, 1>>),
     Digits(<<2>>), T_WRAPS_TO_ONE, Rep(DIGIT0, ARGC_SIZE - 1) \o Digits(<<2>>)}

\* launchers whose ARGC slot holds each of the contents, and a launcher
\* finalized with an empty second argument
ArgcStubs ==
    {[StubNoTransform EXCEPT !.argc = Buffer(c, ARGC_SIZE)] : c \in ArgcContents}
      \cup {FinalizedStub(<<T_TOOL, <<>>>>, U32(0, 0), FALSE)}

\* runs that vary the metadata slots
SlotRuns ==
    {[platform |-> p, stub |-> st, inv |-> PlainInvocation(p), env |-> EnvDir,
      fs |-> FSAll(p)] : p \in Platforms, st \in ExportStubs \cup ArgcStubs}

\* a base directory that ends in a separator
EnvDirSlash == <<E_A, E_DIR_SLASH>>

\* the files of directory mode: the base directory with and without the
\* files the arguments name
FSTargets == [files |-> {<<T_RTOOL, <<NUL>>>>, <<T_RDATA, <<NUL>>>>}, dirs |-> {T_DIR}]
FSNoTargets == [files |-> {}, dirs |-> {T_DIR}]

\* runs in directory mode
DirectoryRuns ==
    {[platform |-> p, stub |-> st, inv |-> PlainInvocation(p), env |-> e, fs |-> f] :
        p \in Platforms, st \in {StubTypical, StubSecondOnly},
        e \in {EnvDir, EnvDirSlash}, f \in {FSTargets, FSNoTargets, FSNone}}

\* a manifest whose value for "t" has 600 bytes
ManifestLongValue ==
    Line(T_TOOL, T_DIR \o <<SLASH>> \o Rep(98, 597)) \o Line(T_DATA, T_RDATA)

\* RUNFILES_DIR of n bytes, n >= 3
EnvDirOfLen(n) == <<E_A, Entry(KeyPrefix(RUNFILES_DIR) \o T_DIR \o <<SLASH>>, n - 3)>>

\* runs whose resolved path reaches the size of the path buffer: through a
\* manifest value, through a join that fills the buffer exactly, and through
\* a base directory that leaves no room for the path
LongPathRuns ==
    {[platform |-> p, stub |-> StubTypical, inv |-> PlainInvocation(p),
      env |-> EnvManifest,
      fs |-> [files |-> {<<T_MANIFEST, ManifestLongValue>>}, dirs |-> {}]] :
        p \in Platforms}
    \cup
    {[platform |-> p, stub |-> StubTypical, inv |-> PlainInvocation(p),
      env |-> EnvDirOfLen(MAX_PATH_LEN(p) - k), fs |-> FSNone] :
        p \in Platforms, k \in {1, 2}}

\* both arguments flagged
StubBothFlagged == FinalizedStub(<<T_TOOL, T_DATA>>, U32(0, 3), TRUE)

\* n lines "a b"
FillerLines(n) == [i \in 1..(4 * n) |-> <<T_A[1], SPACE, 98, NEWLINE>>[((i - 1) % 4) + 1]]

\* the key "t" twice, with different values, around the line of "d"
ManifestDuplicate == Line(T_TOOL, T_RTOOL) \o Line(T_DATA, T_RDATA) \o Line(T_TOOL, T_EVIL)

\* a line without a space, then lines with one: "t" is in line MAX_ENTRIES
\* of them, "d" and a second "t" are beyond
ManifestAtLimit(p) ==
    T_C \o <<NEWLINE>> \o FillerLines(MAX_ENTRIES(p) - 1) \o Line(T_TOOL, T_RTOOL)
        \o Line(T_DATA, T_RDATA) \o Line(T_TOOL, T_EVIL)

\* "t" only beyond the first MAX_ENTRIES lines with a space
ManifestBeyond(p) ==
    FillerLines(MAX_ENTRIES(p)) \o Line(T_TOOL, T_RTOOL) \o Line(T_DATA, T_RDATA)

\* runs on manifests with duplicate keys and with more lines than the table
\* has entries
TableRuns ==
    UNION {{[platform |-> p, stub |-> StubBothFlagged, inv |-> PlainInvocation(p),
             env |-> EnvManifest,
             fs |-> [files |-> {<<T_MANIFEST, text>>}, dirs |-> {}]] :
               text \in {ManifestDuplicate, ManifestAtLimit(p), ManifestBeyond(p)}} :
           p \in Platforms}

\* argv and mask the finalizer accepts: one value, ten values with all 32
\* bits, an empty value first and later, values of '@' bytes only (one
\* byte, a whole slot), a value that fills its slot
RoundTripInputs ==
    {<<<<T_TOOL>>, U32(0, 0)>>,
     <<[i \in 1..MAX_ARGS |-> IF i % 2 = 1 THEN T_TOOL ELSE T_DATA], U32(65535, 65535)>>,
     <<<<<<>>>>, U32(0, 0)>>,
     <<<<T_TOOL, <<>>>>, U32(0, 2)>>,
     <<<<<<AT>>, T_DATA>>, U32(0, 2)>>,
     <<<<ARG_PATTERN, T_DATA>>, U32(65535, 65535)>>,
     <<<<T_TOOL, Rep(98, ARG_SIZE)>>, U32(0, 0)>>}

\* runs of the launchers the finalizer writes for these inputs
RoundTripRuns ==
    UNION {LET st == FinalizedStub(in[1], in[2], TRUE)
           IN {[platform |-> p, stub |-> st, inv |-> PlainInvocation(p), env |-> EnvDir,
                fs |-> FSAll(p)] : p \in Platforms} :
           in \in RoundTripInputs}

Runs ==
    ArgRuns \cup EnvRuns \cup CapRuns \cup ManifestRuns \cup SlotRuns \cup DirectoryRuns
        \cup LongPathRuns \cup TableRuns \cup RoundTripRuns

\* no finalizer runs
FinalizerIdle ==
    /\ tmpl = <<>> /\ fargv = <<>> /\ fmask = U32(0, 0) /\ fexport = FALSE
    /\ fstage = "idle" /\ fres = NoResult /\ rargv = <<>> /\ rres = NoResult
    /\ template_path = "" /\ output_path = NoValue /\ disk = <<>>

\* entry of _start_rust / main
InitLaunch ==
    /\ FinalizerIdle
    /\ \E run \in Runs :
          /\ platform = run.platform
          /\ stub = run.stub
          /\ runtime_argv = run.inv.argv
          /\ cmdline = run.inv.cmdline
          /\ environ = run.env
          /\ fs = run.fs
    /\ pc = IF platform = "windows" THEN "cmdline" ELSE "start"
    /\ argc = 0
    /\ transform_flags = U32(0, 0)
    /\ export_runfiles_env = FALSE
    /\ runfiles = NoRunfiles
    /\ resolved_paths = <<>>
    /\ cmdline_wide = <<>>
    /\ rlocation_calls = <<>>
    /\ envp = <<>>
    /\ child = NoChild
    /\ exit_code = None
    /\ output = <<>>

(***************************************************************************)
(* Launcher: the steps of _start_rust (Linux) / main (macOS, Windows)      *)
(***************************************************************************)
\* exit(code) / ExitProcess(code)
Exit(code) == pc' = "exited" /\ exit_code' = code

\* `const STDOUT: i32 = 1`, the descriptor print() writes to
STDOUT == 1

\* print(b"ERROR: ..."): one diagnostic written by print
Printed(text) == [fd |-> STDOUT, text |-> text]

\* a fatal path: the diagnostic is printed, then exit(1).  A panic reaches
\* the panic handler, which calls exit(1) and prints nothing.
Fatal(err) ==
    /\ Exit(1)
    /\ output' = IF err = "panic" THEN output ELSE Append(output, Printed(err))

\* a step that prints the diagnostic of err and goes on at next all the same
ContinueAfterError(err, next) ==
    /\ pc' = next
    /\ exit_code' = exit_code
    /\ output' = IF err \in {"", "panic"} THEN output ELSE Append(output, Printed(err))

\* the step ends in the fatal path of err, or goes on at next when err = ""
Continue(err, next) ==
    IF err # "" THEN Fatal(err)
    ELSE pc' = next /\ UNCHANGED <<exit_code, output>>

\* Windows: parse_command_line(GetCommandLineW()); runtime_argv then holds the
\* arguments after argv[0]
ParseCommandLine ==
    /\ pc = "cmdline"
    /\ runtime_argv' = parse_command_line(cmdline)
    /\ pc' = "start"
    /\ UNCHANGED <<platform, stub, cmdline, environ, fs, argc, transform_flags,
                   export_runfiles_env, runfiles, resolved_paths, cmdline_wide,
                   rlocation_calls, envp, child, exit_code, output>>
    /\ UNCHANGED fvars

\* `if is_template_placeholder(&ARGC_PLACEHOLDER) { print(..); exit(1) }`
CheckTemplate ==
    /\ pc = "start"
    /\ Continue(IF is_template_placeholder(stub.argc)
                THEN "This is a template stub runner" ELSE "", "parse")
    /\ UNCHANGED <<platform, stub, runtime_argv, cmdline, environ, fs, argc,
                   transform_flags, export_runfiles_env, runfiles, resolved_paths,
                   cmdline_wide, rlocation_calls, envp, child>>
    /\ UNCHANGED fvars

\* the three metadata slots are parsed
ParseMetadata ==
    /\ pc = "parse"
    /\ \E checks \in BOOLEAN :
          LET a == ParseArgc(stub.argc, checks)
              f == ParseTransformFlags(stub.flags, checks)
              err == IF a.err # "" THEN a.err ELSE f.err
          IN /\ Continue(err, "runfiles")
             /\ IF err # ""
                THEN UNCHANGED <<argc, transform_flags, export_runfiles_env>>
                ELSE /\ argc' = a.value
                     /\ transform_flags' = f.value
                     /\ export_runfiles_env' = ParseExportEnv(platform, stub.export)
    /\ UNCHANGED <<platform, stub, runtime_argv, cmdline, environ, fs, runfiles,
                   resolved_paths, cmdline_wide, rlocation_calls, envp, child>>
    /\ UNCHANGED fvars

\* a launcher that does not mask the flags with argc
needs_runfiles_unmasked == transform_flags # U32(0, 0) \/ export_runfiles_env

\* `needs_runfiles`: a flag bit below argc is set, or the export is on
needs_runfiles ==
    AndArgcMask(transform_flags, argc) # U32(0, 0) \/ export_runfiles_env

\* `executable_path`, from argv[0]
executable_path ==
    IF platform = "windows" THEN WindowsExecutablePath(cmdline)
    ELSE ExecutablePath(platform, runtime_argv)

\* `let runfiles = if needs_runfiles { Runfiles::create(..) or exit } else { None }`
InitRunfiles ==
    /\ pc = "runfiles"
    /\ LET rf == create(platform, environ, fs.files, fs.dirs, executable_path)
       IN IF ~needs_runfiles
          THEN runfiles' = NoRunfiles /\ Continue("", "resolve")
          ELSE IF rf.some
          THEN runfiles' = rf /\ Continue("", "resolve")
          ELSE Fatal("Failed to initialize runfiles") /\ UNCHANGED runfiles
    /\ UNCHANGED <<platform, stub, runtime_argv, cmdline, environ, fs, argc,
                   transform_flags, export_runfiles_env, resolved_paths,
                   cmdline_wide, rlocation_calls, envp, child>>
    /\ UNCHANGED fvars

\* the loop over the embedded arguments
ResolveArguments ==
    /\ pc = "resolve"
    /\ LET r == ResolveEmbedded(platform, stub.args, argc, transform_flags,
                                runfiles, 0,
                                [err |-> "", paths |-> <<>>, calls |-> <<>>])
       IN /\ rlocation_calls' = r.calls
          /\ resolved_paths' = r.paths
          /\ Continue(r.err, "runtime")
    /\ UNCHANGED <<platform, stub, runtime_argv, cmdline, environ, fs, argc,
                   transform_flags, export_runfiles_env, runfiles, cmdline_wide,
                   envp, child>>
    /\ UNCHANGED fvars

\* POSIX: the runtime arguments are copied behind the embedded ones;
\* Windows: the child's command line is built
ForwardRuntimeArgs ==
    /\ pc = "runtime"
    /\ IF platform = "windows"
       THEN /\ cmdline_wide' = BuildCommandLine(resolved_paths, runtime_argv)
            /\ Continue("", "environ")
            /\ UNCHANGED resolved_paths
       ELSE LET a == AppendRuntimeArgs(platform, resolved_paths, runtime_argv)
            IN /\ UNCHANGED cmdline_wide
               /\ resolved_paths' = a.paths
               /\ Continue(a.err, "environ")
    /\ UNCHANGED <<platform, stub, runtime_argv, cmdline, environ, fs, argc,
                   transform_flags, export_runfiles_env, runfiles, rlocation_calls,
                   envp, child>>
    /\ UNCHANGED fvars

\* `let envp = if export_runfiles_env { build_runfiles_environ(..) } else ..`
BuildEnvironment ==
    /\ pc = "environ"
    /\ LET e == ChildEnvironment(platform, export_runfiles_env, runfiles, environ)
       IN /\ envp' = IF e.err # "" THEN envp ELSE e.env
          /\ Continue(e.err, "exec")
    /\ UNCHANGED <<platform, stub, runtime_argv, cmdline, environ, fs, argc,
                   transform_flags, export_runfiles_env, runfiles, resolved_paths,
                   cmdline_wide, rlocation_calls, child>>
    /\ UNCHANGED fvars

\* the characters of the bytes 48 ('0') to 90 ('Z')
Chars ==
    <<"0", "1", "2", "3", "4", "5", "6", "7", "8", "9", ":", ";", "<", "=", ">", "?",
      "@", "A", "B", "C", "D", "E", "F", "G", "H", "I", "J", "K", "L", "M", "N", "O",
      "P", "Q", "R", "S", "T", "U", "V", "W", "X", "Y", "Z">>

Char(b) == Chars[b - DIGIT0 + 1]

\* errno values of a failed execve: ENOENT, ENOEXEC, EACCES, ENAMETOOLONG
Errnos == {2, 8, 13, 36}

\* what a failed execve returns: the Linux system call -errno, the libc
\* function of macOS -1
ExecveReturns(p) == IF p = "macos" THEN {-1} ELSE {-e : e \in Errnos}

\* print(b"ERROR: execve failed with code "), b"-" when ret < 0, and the one
\* byte `(-ret) as u8 + b'0'`
ExecveDiagnostic(ret) ==
    LET digit == (IF ret < 0 THEN (-ret) % 256 ELSE ret % 256) + DIGIT0
    IN "execve failed with code " \o (IF ret < 0 THEN "-" ELSE "") \o Char(digit)

\* execve / CreateProcessW: when it fails the launcher prints and exits with 1
Handoff ==
    /\ pc = "exec"
    /\ \E after \in BytesAfter(resolved_paths), ok \in BOOLEAN :
       \E ret \in IF ok \/ platform = "windows" THEN {0} ELSE ExecveReturns(platform) :
          /\ child' = [called |-> TRUE,
                       argv |-> IF platform = "windows" THEN <<>>
                                ELSE ChildArgv(resolved_paths, after),
                       cmdline |-> cmdline_wide,
                       envp |-> envp,
                       state |-> IF ok THEN "running" ELSE "none",
                       code |-> None,
                       ret |-> ret]
          /\ Continue(IF ok THEN ""
                      ELSE IF platform = "windows" THEN "CreateProcess failed"
                      ELSE ExecveDiagnostic(ret), "child")
    /\ UNCHANGED <<platform, stub, runtime_argv, cmdline, environ, fs, argc,
                   transform_flags, export_runfiles_env, runfiles, resolved_paths,
                   cmdline_wide, rlocation_calls, envp>>
    /\ UNCHANGED fvars

\* exit codes of the child that the runs explore
ChildExitCodes == {0, 1, 3}

\* Windows: the child started by CreateProcessW ends with some exit code
ChildTerminates ==
    /\ pc = "child"
    /\ platform = "windows"
    /\ child.state = "running"
    /\ \E code \in ChildExitCodes :
          child' = [child EXCEPT !.state = "terminated", !.code = code]
    /\ UNCHANGED <<platform, stub, runtime_argv, cmdline, environ, fs, pc, argc,
                   transform_flags, export_runfiles_env, runfiles, resolved_paths,
                   cmdline_wide, rlocation_calls, envp, exit_code, output>>
    /\ UNCHANGED fvars

\* a wait that returns while the process is still running
WaitWithoutTimeout(process) == process.state \in {"running", "terminated"}

\* Windows: WaitForSingleObject(pi.hProcess, INFINITE) returns once the
\* process has ended
WaitForSingleObject(process) == process.state = "terminated"

\* Windows: GetExitCodeProcess on the child
GetExitCodeProcess(process) == process.code

\* Windows: WaitForSingleObject, GetExitCodeProcess, ExitProcess(exit_code)
ChildExits ==
    /\ pc = "child"
    /\ platform = "windows"
    /\ WaitForSingleObject(child)
    /\ Exit(GetExitCodeProcess(child))
    /\ UNCHANGED <<platform, stub, runtime_argv, cmdline, environ, fs, argc,
                   transform_flags, export_runfiles_env, runfiles, resolved_paths,
                   cmdline_wide, rlocation_calls, envp, child, output>>
    /\ UNCHANGED fvars

NextLaunch ==
    \/ ParseCommandLine
    \/ CheckTemplate
    \/ ParseMetadata
    \/ InitRunfiles
    \/ ResolveArguments
    \/ ForwardRuntimeArgs
    \/ BuildEnvironment
    \/ Handoff
    \/ ChildTerminates
    \/ ChildExits

SpecLaunch == InitLaunch /\ [][NextLaunch]_vars

\* the phases in which the launcher runs code of its own; every action of
\* the launcher is enabled by its phase alone
RunningPhases ==
    {"cmdline", "start", "parse", "runfiles", "resolve", "runtime", "environ", "exec"}

\* the launcher is one sequential thread and none of its phases blocks: a
\* launcher in a running phase leaves it (weak fairness of the launcher's
\* steps, with the enabling condition written as the phase)
SpecLaunchFair ==
    SpecLaunch /\ ([]<>(pc \notin RunningPhases) \/ []<><<pc \in RunningPhases>>_pc)

(***************************************************************************)
(* Launcher: properties                                                    *)
(***************************************************************************)
\* execve / CreateProcessW was called
HandoffReached == child.called

\* embedded argument i (from 0) as the finalizer stored it
EmbeddedLiteral(i) == Slice(stub.args[i + 1], 0, str_len(stub.args[i + 1]))

\* the string the launcher put into buffer i (from 1) of resolved_paths
OwnString(i) == Slice(resolved_paths[i], 0, str_len(resolved_paths[i]))

\* C4: on every backend a launcher whose ARGC slot still starts with
\* "@@RUNFILES_" does not get past the template check: it makes no execve /
\* CreateProcessW call, and when it has exited its status is 1, whatever the
\* runtime arguments and the environment.
C4_TemplateRefused ==
    str_starts_with(stub.argc, TEMPLATE_PREFIX)
        => /\ ~HandoffReached
           /\ pc \in {"cmdline", "start", "exited"}
           /\ (pc = "exited" => exit_code = 1)

\* a launcher with only its ARGC slot unpatched, started on Windows with
\* runtime arguments and a runfiles environment, has exited
C4_Witness ==
    /\ stub = ArgcLeftStub
    /\ platform = "windows"
    /\ Len(runtime_argv) > 0
    /\ environ = EnvManifest
    /\ pc = "exited"
    /\ exit_code = 1
    /\ ~HandoffReached

\* C5: when a launcher finalized with N embedded arguments reaches handoff
\* after being started with runtime_argc runtime arguments, the child's argv
\* is the N embedded arguments in index order followed by runtime_argv[1..]
\* in order, N + (runtime_argc - 1) entries, without the launcher's argv[0]
\* (stated for execve, where the child's argv is the vector handed over).
C5_ChildArgv ==
    (HandoffReached /\ platform # "windows")
        => /\ Len(child.argv) = argc + (Len(runtime_argv) - 1)
           /\ child.argv = [i \in 1..argc |-> OwnString(i)] \o Tail(runtime_argv)

\* C6: for every i in [0, argc) rlocation is called on embedded argument i
\* iff bit i of transform_flags is 1, and an argument whose bit is 0 reaches
\* the child equal to the embedded literal (stated for execve).
C6_TransformIffFlagged ==
    HandoffReached
        => \A i \in 0..(argc - 1) :
              /\ (\E k \in 1..Len(rlocation_calls) : rlocation_calls[k] = i)
                    <=> BitSet(transform_flags, i)
              /\ (~BitSet(transform_flags, i) /\ platform # "windows")
                    => child.argv[i + 1] = EmbeddedLiteral(i)

\* C7: an embedded argument flagged for transform whose literal is absolute
\* reaches the child as the literal unchanged, in manifest mode (also when
\* the manifest has an entry for it) and in directory mode.  POSIX: the
\* child's argv entry; Windows: the command line starts with the literal.
C7_AbsoluteUnchanged ==
    HandoffReached
        => /\ platform # "windows"
                => \A i \in 0..(argc - 1) :
                      (BitSet(transform_flags, i) /\ EmbeddedLiteral(i)[1] = SLASH)
                          => child.argv[i + 1] = EmbeddedLiteral(i)
           /\ (/\ platform = "windows"
               /\ BitSet(transform_flags, 0)
               /\ Len(EmbeddedLiteral(0)) >= 2
               /\ \/ IsAlpha(EmbeddedLiteral(0)[1]) /\ EmbeddedLiteral(0)[2] = COLON
                  \/ Slice(EmbeddedLiteral(0), 0, 2) = <<BACKSLASH, BACKSLASH>>)
                => Slice(child.cmdline, 0, Len(EmbeddedLiteral(0))) = EmbeddedLiteral(0)

\* the entries of env whose key is key
WithKey(env, key) == SelectSeq(env, LAMBDA e : EntryStartsWith(e, KeyPrefix(key)))

\* the entries of env whose key is none of the three runfiles variables
OtherEntries(env) ==
    SelectSeq(env, LAMBDA e :
        /\ EntryLen(e) > 0
        /\ ~EntryStartsWith(e, KeyPrefix(RUNFILES_MANIFEST_FILE))
        /\ ~EntryStartsWith(e, KeyPrefix(RUNFILES_DIR))
        /\ ~EntryStartsWith(e, KeyPrefix(JAVA_RUNFILES)))

\* the value of an entry whose key is key
ValueOf(e, key) == EntryBytes(e, Len(key) + 1, EntryLen(e) - (Len(key) + 1))

\* C8: when export_env is enabled and the launcher reaches handoff, the
\* child's environment has RUNFILES_MANIFEST_FILE iff runfiles were found in
\* manifest mode (env manifest or sibling manifest); it has RUNFILES_DIR and
\* JAVA_RUNFILES, with the same value, when a directory path was recorded,
\* and neither of them when none was.
C8_ExportedVariables ==
    (HandoffReached /\ export_runfiles_env)
        => /\ WithKey(child.envp, RUNFILES_MANIFEST_FILE) # <<>>
                <=> runfiles.source \in {"env manifest", "sibling manifest"}
           /\ runfiles.dir_path.some
                => /\ WithKey(child.envp, RUNFILES_DIR) # <<>>
                   /\ WithKey(child.envp, JAVA_RUNFILES) # <<>>
                   /\ ValueOf(WithKey(child.envp, RUNFILES_DIR)[1], RUNFILES_DIR)
                        = ValueOf(WithKey(child.envp, JAVA_RUNFILES)[1], JAVA_RUNFILES)
           /\ ~runfiles.dir_path.some
                => /\ WithKey(child.envp, RUNFILES_DIR) = <<>>
                   /\ WithKey(child.envp, JAVA_RUNFILES) = <<>>

\* the entries the launcher emits for the runfiles it found
Emitted(key, path) == IF path.some THEN <<Entry(KeyPrefix(key) \o path.value, 0)>> ELSE <<>>

\* C9: when export_env is enabled, no inherited entry whose key is
\* RUNFILES_MANIFEST_FILE, RUNFILES_DIR or JAVA_RUNFILES is copied to the
\* child's environment (empty-valued ones and keys not re-emitted included):
\* the child's entries for a key are the one the launcher emits, at most
\* one; every other inherited entry is copied unchanged.
C9_InheritedFiltered ==
    (HandoffReached /\ export_runfiles_env)
        => /\ WithKey(child.envp, RUNFILES_MANIFEST_FILE)
                = Emitted(RUNFILES_MANIFEST_FILE, runfiles.manifest_path)
           /\ WithKey(child.envp, RUNFILES_DIR) = Emitted(RUNFILES_DIR, runfiles.dir_path)
           /\ WithKey(child.envp, JAVA_RUNFILES) = Emitted(JAVA_RUNFILES, runfiles.dir_path)
           /\ OtherEntries(child.envp) = OtherEntries(environ)

\* C10: on every backend the launcher never hands off with an environment
\* from which an emitted runfiles variable or an inherited entry of another
\* key is missing: when the augmented environment does not fit the limits
\* of the platform it exits with status 1 before the handoff.
C10_NoPartialEnvironment ==
    (HandoffReached /\ export_runfiles_env)
        => /\ Len(OtherEntries(child.envp)) = Len(OtherEntries(environ))
           /\ Len(WithKey(child.envp, RUNFILES_MANIFEST_FILE))
                >= Len(Emitted(RUNFILES_MANIFEST_FILE, runfiles.manifest_path))
           /\ Len(WithKey(child.envp, RUNFILES_DIR))
                >= Len(Emitted(RUNFILES_DIR, runfiles.dir_path))
           /\ Len(WithKey(child.envp, JAVA_RUNFILES))
                >= Len(Emitted(JAVA_RUNFILES, runfiles.dir_path))

\* the diagnostics printed so far
Diagnostics == {output[k].text : k \in 1..Len(output)}

\* the value of the first inherited entry whose key is key, <<>> when none
InheritedValue(key) ==
    LET hits == WithKey(environ, key)
    IN IF hits = <<>> THEN <<>> ELSE ValueOf(hits[1], key)

\* the file at path can be opened and read() returns bytes
Loadable(path) == \E f \in fs.files : f[1] = path /\ Len(f[2]) > 0

\* the four candidates of the discovery, in their order
ManifestVariableUsable ==
    /\ InheritedValue(RUNFILES_MANIFEST_FILE) # <<>>
    /\ Loadable(InheritedValue(RUNFILES_MANIFEST_FILE))
DirectoryVariableUsable == InheritedValue(RUNFILES_DIR) # <<>>
SiblingManifestUsable ==
    executable_path.some /\ Loadable(executable_path.value \o DOT_RUNFILES_MANIFEST)
SiblingDirectoryUsable ==
    executable_path.some /\ (executable_path.value \o DOT_RUNFILES) \in fs.dirs

FirstCandidate ==
    IF ManifestVariableUsable THEN "env manifest"
    ELSE IF DirectoryVariableUsable THEN "env directory"
    ELSE IF SiblingManifestUsable THEN "sibling manifest"
    ELSE IF SiblingDirectoryUsable THEN "sibling directory"
    ELSE "none"

\* C11: on every backend Runfiles::create selects the first candidate that
\* succeeds in the order RUNFILES_MANIFEST_FILE (set, non-empty, loadable),
\* RUNFILES_DIR (set, non-empty), sibling manifest (loadable), sibling
\* directory (exists); it returns None only if all four fail.
C11_DiscoveryOrder ==
    /\ runfiles.some => runfiles.source = FirstCandidate
    /\ "Failed to initialize runfiles" \in Diagnostics => FirstCandidate = "none"

\* a flag bit below argc is set, or the export is enabled
NeedRunfiles ==
    (\E i \in 0..(argc - 1) : BitSet(transform_flags, i)) \/ export_runfiles_env

\* the launcher is past the runfiles step and running
PastDiscovery == pc \in {"resolve", "runtime", "environ", "exec", "child"}

\* C12: runfiles discovery happens iff a flag bit below argc is set or the
\* export is enabled: past the step the launcher has runfiles iff it needed
\* them; when they are needed and no candidate is usable it does not get
\* past the step and makes no handoff; the runfiles diagnostic is only
\* printed when they are needed, and then the launcher has exited with 1
\* without handoff; flag bits at positions >= argc alone never cause it.
C12_DiscoveryIffNeeded ==
    /\ PastDiscovery => (runfiles.some <=> NeedRunfiles)
    /\ (PastDiscovery /\ NeedRunfiles) => FirstCandidate # "none"
    /\ "Failed to initialize runfiles" \in Diagnostics
          => /\ NeedRunfiles
             /\ pc = "exited" /\ exit_code = 1
             /\ ~HandoffReached

\* only flag bits >= argc are set, the export is off, there are no runfiles
\* anywhere, and the launcher has handed off
C12_Witness ==
    /\ stub = StubHighBits
    /\ fs = FSNone
    /\ environ = EnvPlain
    /\ ~runfiles.some
    /\ pc = "child"
    /\ HandoffReached

\* the number of blank-separated tokens of a command line without quotes
Tokens(c) ==
    Cardinality({i \in 1..Len(c) :
                    /\ c[i] \notin {SPACE, TAB}
                    /\ (i = 1 \/ c[i - 1] \in {SPACE, TAB})})

\* the runtime arguments the launcher was started with, after argv[0]
\* (Windows: for a command line without quotes)
RuntimeArgCount ==
    IF platform = "windows" THEN Tokens(cmdline) - 1 ELSE Len(runtime_argv) - 1

\* the number of arguments handed to the child
ChildArgCount ==
    IF platform = "windows" THEN Tokens(child.cmdline) ELSE Len(child.argv)

NoQuotes(c) == \A i \in 1..Len(c) : c[i] # QUOTE

\* C13: on every backend the launcher hands off only when the embedded plus
\* the runtime arguments are at most 128, and then with all of them; with
\* more it exits with status 1; the diagnostic of the cap is printed only
\* when the total exceeds 128.
C13_ArgumentCap ==
    NoQuotes(cmdline)
        => /\ HandoffReached
                => /\ argc + RuntimeArgCount <= MAX_TOTAL_ARGS
                   /\ ChildArgCount = argc + RuntimeArgCount
           /\ "Too many total arguments" \in Diagnostics
                => /\ argc + RuntimeArgCount > MAX_TOTAL_ARGS
                   /\ pc = "exited" /\ exit_code = 1 /\ ~HandoffReached

\* the runtime arguments the launcher was started with: argv[1..] on POSIX,
\* the arguments after argv[0] of its command line on Windows
RuntimeArguments ==
    IF platform = "windows" THEN parse_command_line(cmdline) ELSE Tail(runtime_argv)

\* the runtime arguments the child receives: its argv after the embedded
\* ones on POSIX, the arguments of its command line after them on Windows
DeliveredRuntimeArguments ==
    IF platform = "windows"
    THEN LET rest == parse_command_line(child.cmdline)
         IN SubSeq(rest, argc, Len(rest))
    ELSE SubSeq(child.argv, argc + 1, Len(child.argv))

\* C14: at handoff every runtime argument after argv[0] reaches the child
\* byte for byte after the embedded arguments, whatever its length and
\* content (totals within the cap of 128, at least one embedded argument).
C14_RuntimeArgsVerbatim ==
    (HandoffReached /\ argc >= 1 /\ argc + RuntimeArgCount <= MAX_TOTAL_ARGS)
        => DeliveredRuntimeArguments = RuntimeArguments

\* C15: on POSIX a launcher that has exited with status 1 has written a
\* diagnostic, all of it to stderr (file descriptor 2), and nothing to stdout.
C15_DiagnosticsOnStderr ==
    (platform # "windows" /\ pc = "exited" /\ exit_code = 1)
        => /\ output # <<>>
           /\ \A k \in 1..Len(output) : output[k].fd = 2 /\ output[k].fd # STDOUT

\* C18: on Windows a launcher whose CreateProcessW succeeded has exited only
\* when the child has terminated, and then with exactly the child's exit
\* code; a launcher whose CreateProcessW failed has started no child, waits
\* for none and exits with status 1.
C18_WaitsForChild ==
    (platform = "windows" /\ child.called)
        => /\ (child.state # "none" /\ pc = "exited")
                 => child.state = "terminated" /\ exit_code = child.code
           /\ child.state = "none"
                 => /\ pc = "exited" /\ exit_code = 1
                    /\ "CreateProcess failed" \in Diagnostics

\* C18 witness: the launcher has exited with the status 3 of its child
C18_Witness ==
    /\ platform = "windows"
    /\ pc = "exited"
    /\ child.state = "terminated"
    /\ child.code = 3
    /\ exit_code = 3

\* the bytes of the manifest file the runfiles were loaded from
LoadedManifestText ==
    LET f == CHOOSE g \in fs.files : g[1] = runfiles.manifest_path.value IN f[2]

\* the lines of data in file order, split at '\n'
LinesOf(data) ==
    LET starts == LineStarts(data)
    IN [k \in 1..Len(starts) |-> LineAt(data, starts[k])]

HasSpace(line) == \E i \in 1..Len(line) : line[i] = SPACE

FirstSpace(line) == CHOOSE i \in 1..Len(line) : line[i] = SPACE /\ \A j \in 1..(i - 1) : line[j] # SPACE

WithoutTrailingCR(value) ==
    IF Len(value) > 0 /\ value[Len(value)] = CARRIAGE_RETURN
    THEN SubSeq(value, 1, Len(value) - 1) ELSE value

\* the entry stated for a line with a space: the key is the bytes before the
\* first space, the value the bytes after it with one trailing '\r' removed
StatedEntry(line) ==
    [key |-> SubSeq(line, 1, FirstSpace(line) - 1),
     value |-> WithoutTrailingCR(SubSeq(line, FirstSpace(line) + 1, Len(line)))]

StatedEntries(data) ==
    LET with_space == SelectSeq(LinesOf(data), HasSpace)
    IN [k \in 1..Len(with_space) |-> StatedEntry(with_space[k])]

ManifestLoaded == runfiles.some /\ runfiles.mode = "manifest"

\* C19: on every backend the table load_manifest builds holds, in file
\* order, one entry for every line with a space, its key the bytes before
\* the first space and its value the bytes after it with one trailing '\r'
\* removed; lines without a space add nothing and do not fail the load.
C19_ManifestEntries ==
    ManifestLoaded => runfiles.entries = StatedEntries(LoadedManifestText)

\* a line whose value field is absent: nothing, or only '\r', follows the
\* first space
ValueAbsent(line) == HasSpace(line) /\ StatedEntry(line).value = <<>>

\* C20: a manifest line whose value field is absent adds no entry, every
\* stored entry has a non-empty value, and an embedded argument resolved by a
\* manifest hit is never the empty path.
C20_NoEmptyValues ==
    ManifestLoaded
        => /\ Len(runfiles.entries)
                 = Len(SelectSeq(LinesOf(LoadedManifestText),
                                 LAMBDA line : HasSpace(line) /\ ~ValueAbsent(line)))
           /\ \A k \in 1..Len(runfiles.entries) : runfiles.entries[k].value # <<>>
           /\ \A i \in 1..Len(resolved_paths) :
                 (/\ i <= argc
                  /\ BitSet(transform_flags, i - 1)
                  /\ lookup(runfiles.entries, EmbeddedLiteral(i - 1)).some)
                     => OwnString(i) # <<>>

\* the metadata was parsed and the launcher went on
MetadataParsed == pc \in {"runfiles", "resolve", "runtime", "environ", "exec", "child"}

\* the content of the EXPORT_RUNFILES_ENV slot, up to its first NUL
ExportContent == Slice(stub.export, 0, str_len(stub.export))

\* the flag stated for the slot: true when unfinalized or empty, else false
\* exactly for the content "0"
StatedExportFlag ==
    IF str_starts_with(stub.export, TEMPLATE_PREFIX) \/ ExportContent = <<>> THEN TRUE
    ELSE ExportContent # <<DIGIT0>>

\* C21: on every backend the parsed export flag is false exactly when the
\* finalized EXPORT_RUNFILES_ENV slot holds "0", true for every other
\* non-empty content and true for an unfinalized or empty slot.
C21_ExportFlag ==
    MetadataParsed => export_runfiles_env = StatedExportFlag

\* the content of the ARGC slot, up to its first NUL
ArgcContent == Slice(stub.argc, 0, str_len(stub.argc))

\* text without its leading '0' bytes
WithoutLeadingZeros(text) ==
    IF \A i \in 1..Len(text) : text[i] = DIGIT0 THEN <<>>
    ELSE SubSeq(text, CHOOSE i \in 1..Len(text) :
                         text[i] # DIGIT0 /\ \A j \in 1..(i - 1) : text[j] = DIGIT0,
                Len(text))

\* the value of a string of decimal digits when it is in [1, 10], else 0
ValueInRange(text) ==
    LET t == WithoutLeadingZeros(text)
    IN IF Len(t) = 1 THEN t[1] - DIGIT0
       ELSE IF t = <<DIGIT0 + 1, DIGIT0>> THEN MAX_ARGC
       ELSE 0

\* the ARGC slot is a non-empty string of decimal digits with a value in
\* [1, 10], and every argument slot below that value is non-empty
ValidSlots ==
    /\ ArgcContent # <<>>
    /\ \A i \in 1..Len(ArgcContent) : IsDigit(ArgcContent[i])
    /\ ValueInRange(ArgcContent) >= 1
    /\ \A i \in 0..(ValueInRange(ArgcContent) - 1) : EmbeddedLiteral(i) # <<>>

\* C22: the launcher reaches handoff only with valid slots, and then with
\* argc the value of the ARGC slot; with an empty ARGC, a non-digit, a value
\* of 0 or above 10, or an empty argument slot below argc it gets no
\* further than the argument step and exits with status 1 before any
\* handoff.
C22_ValidSlotsOnly ==
    /\ HandoffReached => ValidSlots /\ argc = ValueInRange(ArgcContent)
    /\ ~ValidSlots
          => /\ pc \in {"cmdline", "start", "parse", "runfiles", "resolve", "exited"}
             /\ pc = "exited" => exit_code = 1
             /\ ~HandoffReached

\* position of a phase in the order CheckSentinel, ParseMetadata,
\* DiscoverRunfiles, ResolveEmbedded, AppendRuntimeArgs, BuildEnv, Handoff
PhaseOrder ==
    <<"start", "parse", "runfiles", "resolve", "runtime", "environ", "exec", "child">>

PhaseIndex(phase) == CHOOSE k \in 1..Len(PhaseOrder) : PhaseOrder[k] = phase

\* a step of a POSIX launcher leaves its phase for the next phase in the
\* order or for exit with status 1, and goes to exit 1 whenever it printed a
\* diagnostic; an ended launcher takes no step
PhaseStep ==
    platform \in {"linux", "macos"}
        => /\ pc \notin {"exited", "child"}
           /\ \/ pc' = "exited" /\ exit_code' = 1
              \/ /\ pc' \notin {"exited", pc}
                 /\ PhaseIndex(pc') = PhaseIndex(pc) + 1
                 /\ output' = output
           /\ pc' = "child" <=> (child'.called /\ child'.state = "running")

Terminated == pc \in {"exited", "child"}

\* C23: every POSIX run takes the phases in their order, each at most once,
\* goes from a failed phase directly to exit 1 with no later phase and no
\* handoff, and ends in exactly one of exit 1 and handoff.
C23_PhaseOrder ==
    /\ [][PhaseStep]_vars
    /\ <>(platform = "windows" \/ Terminated)
    /\ [](pc = "exited" => (platform = "windows" \/ exit_code = 1))

\* C23 witness: a macOS launcher that needed runfiles, forwarded a runtime
\* argument and built an environment has handed off
C23_Witness ==
    /\ platform = "macos"
    /\ pc = "child"
    /\ stub = StubTypical
    /\ runfiles.some
    /\ Len(runtime_argv) = 2
    /\ Len(rlocation_calls) = 1
    /\ child.state = "running"
    /\ output = <<>>

\* d followed by '/' followed by path, with no separator added when d ends
\* in '/'
Joined(d, path) ==
    IF d[Len(d)] = SLASH THEN d \o path ELSE d \o <<SLASH>> \o path

\* C24: in directory mode on POSIX a flagged embedded argument that is not
\* absolute, with |d| + 1 + |p| < 256, is resolved to the base directory d,
\* a '/' unless d ends in one, and p, whether or not a file exists there.
C24_DirectoryJoin ==
    (/\ platform \in {"linux", "macos"}
     /\ pc \in {"runtime", "environ", "exec", "child"}
     /\ runfiles.some /\ runfiles.mode = "directory")
        => \A i \in 0..(argc - 1) :
              (/\ BitSet(transform_flags, i)
               /\ EmbeddedLiteral(i)[1] # SLASH
               /\ Len(runfiles.dir) + 1 + Len(EmbeddedLiteral(i)) < MAX_PATH_LEN_POSIX)
                  => OwnString(i + 1) = Joined(runfiles.dir, EmbeddedLiteral(i))

\* C24 witness: a base directory that ends in '/', the named file absent,
\* and the joined path handed to the child
C24_Witness ==
    /\ platform = "linux"
    /\ environ = EnvDirSlash
    /\ fs = FSNoTargets
    /\ stub = StubTypical
    /\ HandoffReached
    /\ child.argv[1] = T_RTOOL

\* the separator of the backend
Separator == IF platform = "windows" THEN BACKSLASH ELSE SLASH

\* the whole path embedded argument i (from 0) resolves to: the value of the
\* first manifest line with its key, or the base directory joined with it
FullPath(i) ==
    LET lit == EmbeddedLiteral(i)
        native(v) == IF platform = "windows" THEN ToBackslashes(v) ELSE v
        d == runfiles.dir
    IN IF runfiles.mode = "manifest"
       THEN native(lookup(StatedEntries(LoadedManifestText), lit).value)
       ELSE IF d[Len(d)] \in {Separator, IF platform = "windows" THEN SLASH ELSE Separator}
       THEN d \o native(lit)
       ELSE d \o <<Separator>> \o native(lit)

\* embedded argument i (from 0) is resolved through the runfiles, and its
\* whole path has at least as many bytes as the path buffer
LongPath(i) ==
    /\ runfiles.some
    /\ i < argc
    /\ BitSet(transform_flags, i)
    /\ ~IsAbsolute(platform, EmbeddedLiteral(i))
    /\ runfiles.mode = "manifest" => lookup(runfiles.entries, EmbeddedLiteral(i)).some
    /\ Len(FullPath(i)) >= MAX_PATH_LEN(platform)

\* the launcher ended without a diagnostic and without a handoff
Aborted == pc = "exited" /\ ~HandoffReached /\ output = <<>>

\* C25: on every backend, when the resolved path has at least as many
\* bytes as the path buffer, rlocation returns the leading bytes that fit
\* and the launcher goes on: it does not abort.
C25_LongPathTruncated ==
    \A i \in 0..(MAX_ARGC - 1) :
        LongPath(i)
            => /\ ~Aborted
               /\ pc \in {"runtime", "environ", "exec", "child"}
                     => resolved_paths[i + 1]
                            = Slice(FullPath(i), 0, MAX_PATH_LEN(platform))

\* the value stated for a key: that of the first line with the key among
\* the first MAX_ENTRIES lines that have a space, cut to the entry size; a
\* miss when no such line has the key
StatedLookup(data, key) ==
    LET all == StatedEntries(data)
        kept == SubSeq(all, 1, Min2(Len(all), MAX_ENTRIES(platform)))
        hits == {k \in 1..Len(kept) : kept[k].key = key}
        first == CHOOSE k \in hits : \A j \in hits : k <= j
    IN IF hits = {} THEN NoValue
       ELSE Some(Slice(kept[first].value, 0,
                       Min2(Len(kept[first].value), MAX_PATH_LEN(platform))))

\* the result of a lookup, without the trailing '\r' of its value
LookedUp(key) ==
    LET r == lookup(runfiles.entries, key)
    IN IF r.some THEN Some(WithoutTrailingCR(r.value)) ELSE NoValue

\* C26: a lookup returns the value of the first line with the key, in file
\* order, among the first MAX_ENTRIES (1024 on POSIX, 256 on Windows) lines
\* with a space; a key that only lines beyond them have is a miss.
C26_FirstEntryWithinLimit ==
    ManifestLoaded
        => \A key \in {T_TOOL, T_DATA, T_A} :
              LookedUp(key) = StatedLookup(LoadedManifestText, key)

\* C26 witness: Linux, a manifest with "t" in its 1024th line with a space
\* and "d" and another "t" beyond: the child got the first value of "t" and
\* the literal "d"
C26_Witness ==
    /\ platform = "linux"
    /\ stub = StubBothFlagged
    /\ HandoffReached
    /\ Len(runfiles.entries) = MAX_ENTRIES_POSIX
    /\ fs.files = {<<T_MANIFEST, ManifestAtLimit("linux")>>}
    /\ child.argv = <<T_RTOOL, T_DATA>>

\* the decimal representation of n
RECURSIVE Decimal(_)
Decimal(n) == IF n < 10 THEN Char(DIGIT0 + n) ELSE Decimal(n \div 10) \o Char(DIGIT0 + (n % 10))

\* C27: when execve returns -e on Linux or macOS, the launcher prints a
\* diagnostic with the decimal representation of e, also for e >= 10, and
\* exits with status 1.
C27_ErrnoInDiagnostic ==
    (platform \in {"linux", "macos"} /\ child.called /\ child.ret < 0)
        => /\ pc = "exited"
           /\ exit_code = 1
           /\ \E k \in 1..Len(output) :
                 output[k].text = "execve failed with code -" \o Decimal(-child.ret)

\* buffer i (from 1) of resolved_paths holds a NUL
TerminatedInBuffer(i) ==
    \E k \in 1..Len(resolved_paths[i]) : resolved_paths[i][k] = NUL

\* C28: on Linux and macOS every string of the argv handed to execve is
\* NUL-terminated inside its own 256-byte buffer, so the child reads each
\* argument as the string of that buffer; also for an embedded or runtime
\* argument of exactly 256 bytes and for a directory join that fills the
\* buffer.
C28_ArgvTerminated ==
    (HandoffReached /\ platform \in {"linux", "macos"})
        => \A i \in 1..Len(resolved_paths) :
              /\ Len(resolved_paths[i]) = MAX_PATH_LEN_POSIX
              /\ TerminatedInBuffer(i)
              /\ child.argv[i] = OwnString(i)

\* the failures of the argument count, of a missing metadata sentinel, of a
\* missing ARG placeholder and of a value that is too long
PatchFailures ==
    {"At least one argument (argv[0]) is required", "Maximum 10 arguments supported",
     "ARGC placeholder not found", "TRANSFORM_FLAGS placeholder not found",
     "EXPORT_RUNFILES_ENV placeholder not found", "ARG placeholder not found",
     "Value too long"}

\* C29: finalize_stub is all-or-nothing: when it fails for the argument
\* count, a missing metadata sentinel, a missing ARG placeholder or a value
\* that is too long (also at a later index), no file is created or changed
\* and nothing is written to stdout; bytes are written only by a run in
\* which every placeholder was patched, and they are the patched bytes.
C29_AllOrNothing ==
    fstage # "start"
        => /\ fres.err \in PatchFailures
                 => disk = InitialDisk(tmpl) /\ fres.stdout = <<>>
           /\ (disk # InitialDisk(tmpl) \/ fres.stdout # <<>>)
                 => /\ fres.err = ""
                    /\ LET patched == finalize_stub(tmpl, fargv, fmask, fexport).data
                       IN IF output_path.some
                          THEN disk = (Resolved(output_path.value) :> patched)
                                          @@ InitialDisk(tmpl)
                          ELSE fres.stdout = patched

\* C29 witness: the second value is too long for its slot, after ARGC, the
\* flags, the export flag and the first slot were patched in memory, and the
\* new output file does not exist
C29_Witness ==
    /\ fstage = "finalized"
    /\ tmpl = TplSection
    /\ output_path = Some(P_NEW)
    /\ Len(fargv) = 2
    /\ Len(fargv[2]) = ARG_SIZE + 1
    /\ fres.err = "Value too long"
    /\ P_NEW \notin DOMAIN disk

\* the diagnostics of a launcher whose slots are not valid
CorruptTemplateErrors ==
    {"ARGC is empty", "ARGC contains non-digit characters", "Invalid argc (must be 1-10)",
     "TRANSFORM_FLAGS contains non-digit characters", "Argument is empty"}

\* the first byte of a slot that holds value
FirstByte(value) == IF value = <<>> THEN NUL ELSE value[1]

\* the launcher is the one finalize_stub writes for argv and mask (the first
\* bytes of the first and the last argument slot and of the slot after it
\* are compared first)
WrittenFor(argv, mask) ==
    /\ stub.args[1][1] = FirstByte(argv[1])
    /\ stub.args[Len(argv)][1] = FirstByte(argv[Len(argv)])
    /\ Len(argv) < NumPlaceholders => stub.args[Len(argv) + 1][1] = AT
    /\ stub = FinalizedStub(argv, mask, TRUE)

\* C30: a launcher written by a successful finalize_stub for an argv of 1 to
\* 10 values of at most 256 bytes (the empty string and values of '@' bytes
\* among them) and a u32 mask passes the launcher's validation: argc is
\* parsed as |argv| and transform_flags as the mask, with no overflow, each
\* embedded argument is read back equal to argv[i], and the launcher never
\* ends with a corrupt-template diagnostic.
C30_RoundTrip ==
    \A in \in RoundTripInputs :
        WrittenFor(in[1], in[2])
            => /\ ~Aborted
               /\ Diagnostics \cap CorruptTemplateErrors = {}
               /\ pc \notin {"cmdline", "start", "parse", "exited"}
                     => /\ argc = Len(in[1])
                        /\ transform_flags = in[2]
                        /\ \A i \in 1..Len(in[1]) : EmbeddedLiteral(i - 1) = in[1][i]

====
